---- MODULE Spec2Model ----
(***************************************************************************)
(* Model of the nsys-chrome linking engine: the event adapter, the         *)
(* sweep-line interval overlap engine, the correlation index, the kernel   *)
(* time aggregator and the annotation -> kernel linker.                    *)
(***************************************************************************)
EXTENDS Integers, Sequences, FiniteSets, TLC

(***************************************************************************)
(* Bounds of the model.                                                    *)
(***************************************************************************)
MaxSrc == 1        \* longest source list
MaxTgt == 2        \* longest target list
MaxKernels == 3    \* longest kernel list given to build_correlation_map
MaxApi == 2        \* longest API-call list given to find_kernels_for_annotation
MaxNvtx == 2       \* longest annotation list given to the linker
MaxLinkApi == 2    \* longest API-call list given to the linker
MaxLinkKernels == 2 \* longest kernel list given to the linker
TimeUnit == 500    \* linker timestamps are multiples of TimeUnit nanoseconds
MaxRules == 2      \* most inserts into nvtx_color_scheme
MaxReorder == 2    \* longest list of a call whose lists are reordered
MaxEvents == 2     \* longest event sequence given to the writer
BatchThreshold == 8 \* batch size that triggers a flush, in tokens (128 KiB in the source)
BlockSize == 5     \* input of one compression block of write_gz, in tokens
BufCapacity == 6   \* capacity of the BufWriter, in tokens (256 KiB of bytes in the source)

(***************************************************************************)
(* State.                                                                  *)
(***************************************************************************)
VARIABLES
    pc,                       \* position of the call being run
    source_events,            \* argument of find_overlapping_intervals
    target_events,            \* argument of find_overlapping_intervals
    mixed_events,             \* the sorted marker list
    pos,                      \* index of the next marker of the sweep loop
    active_source_intervals,  \* local of the sweep loop
    result_by_index,          \* local of the sweep loop
    result,                   \* the returned overlap map
    aggregate,                \* the value returned by aggregate_kernel_times
    kernel_events,            \* kernel list (correlation index, linker)
    cuda_api_events,          \* API-call list (kernel lookup, linker)
    correlation_map,          \* the value returned by build_correlation_map
    found_kernels,            \* the value returned by find_kernels_for_annotation
    nvtx_events,              \* annotation list of the linker
    devices,                  \* device partitions still to be processed
    nvtx_kernel_events,       \* derived events, in output order
    mapped_identifiers,       \* annotation identity -> derived event
    flow_events,              \* flow edges, in output order
    next_flow_id,             \* the next fresh flow identifier
    color_rules,              \* the inserts that configured nvtx_color_scheme
    nvtx_color_scheme,        \* options: the colour map, in iteration order
    hash_seed,                \* the random seed of the run's hashers
    partition_out,            \* device -> what the worker of its partition produced
    trace_events,             \* argument of ChromeTraceWriter::write
    file_exists,              \* the output path names a file
    file_bytes,               \* the content of that file
    writer_buf,               \* the bytes held by the BufWriter
    event_index,              \* the loop index of the writer
    writer_mode,              \* which of the three write functions runs
    batch_buffer,             \* the batch of the gzip writers
    encoder                   \* the gzip encoder and, for write_gz, its pool

(***************************************************************************)
(* JSON attribute values of the args bag and Rust's Option.                *)
(***************************************************************************)
Absent == [kind |-> "absent", val |-> 0]
NonInteger == [kind |-> "other", val |-> 0]
IntAttr(n) == [kind |-> "int", val |-> n]

None == [some |-> FALSE, v |-> <<>>]
Some(x) == [some |-> TRUE, v |-> x]

\* serde_json Value::as_i64 chained on args.get(..): Some only for a stored integer
as_i64(a) == IF a.kind = "int" THEN Some(a.val) ELSE None

(***************************************************************************)
(* NsysEventAdapter.  An event reference is the event record; its addr     *)
(* field is the address the reference points to.                           *)
(***************************************************************************)
\* variant: a missing bound is replaced by the display timestamp
get_time_range_ts_fallback(event) ==
    LET start_ns == as_i64(event.start_ns)
        end_ns == as_i64(event.end_ns)
    IN  Some(<< IF start_ns.some THEN start_ns.v ELSE event.ts,
                IF end_ns.some THEN end_ns.v ELSE event.ts >>)

get_time_range(event) ==
    LET start_ns == as_i64(event.start_ns)
        end_ns == as_i64(event.end_ns)
    IN  IF ~start_ns.some THEN None
        ELSE IF ~end_ns.some THEN None
        ELSE Some(<<start_ns.v, end_ns.v>>)

\* A stored correlation identifier is an i64, kept as its two 32-bit words:
\* the value is hi * 2^32 + (lo read as unsigned).  `as i32` keeps the low word.
Int64(hi, lo) == [hi |-> hi, lo |-> lo]
as_i32(v) == v.lo

get_correlation_id(event) ==
    LET v == as_i64(event.correlationId)
    IN  IF v.some THEN Some(as_i32(v.v)) ELSE None

\* variant: the identity is computed from the content of the event
get_event_id_by_content(event) == event.start_ns.val + event.end_ns.val

get_event_id(event) == event.addr

(***************************************************************************)
(* find_overlapping_intervals: markers, sort, sweep.                       *)
(***************************************************************************)
SweepEvent(ts, ty, org, ref) ==
    [timestamp |-> ts, event_type |-> ty, origin |-> org, event_ref |-> ref]

\* variant: the enumeration of the sources counts from the second position
source_index_map_off_by_one(src) ==
    [a \in {src[i].addr : i \in DOMAIN src} |->
        1 + CHOOSE i \in DOMAIN src :
                /\ src[i].addr = a
                /\ \A j \in DOMAIN src : src[j].addr = a => j <= i]

\* HashMap collected from (address, index) pairs: a later pair overwrites
source_index_map(src) ==
    [a \in {src[i].addr : i \in DOMAIN src} |->
        CHOOSE i \in DOMAIN src :
            /\ src[i].addr = a
            /\ \A j \in DOMAIN src : src[j].addr = a => j <= i]

RECURSIVE MarkersOf(_, _)
MarkersOf(events, org) ==
    IF events = <<>> THEN <<>>
    ELSE LET e == Head(events)
             r == get_time_range(e)
         IN  (IF r.some
              THEN << SweepEvent(r.v[1], 1, org, e), SweepEvent(r.v[2], -1, org, e) >>
              ELSE <<>>) \o MarkersOf(Tail(events), org)

\* variant: end markers order before start markers at equal timestamps
MarkerLess_ends_first(a, b) ==
    \/ a.timestamp < b.timestamp
    \/ /\ a.timestamp = b.timestamp
       /\ \/ a.event_type < b.event_type
          \/ /\ a.event_type = b.event_type
             /\ a.origin = "Source" /\ b.origin = "Target"

\* the comparator of sort_by: TRUE when a orders strictly before b
MarkerLess(a, b) ==
    \/ a.timestamp < b.timestamp
    \/ /\ a.timestamp = b.timestamp
       /\ \/ a.event_type > b.event_type
          \/ /\ a.event_type = b.event_type
             /\ a.origin = "Source" /\ b.origin = "Target"

\* variant: m is inserted before the elements it ties with (not stable)
RECURSIVE InsertMarker_before_ties(_, _)
InsertMarker_before_ties(sorted, m) ==
    IF sorted = <<>> THEN << m >>
    ELSE IF ~MarkerLess(Head(sorted), m) THEN << m >> \o sorted
    ELSE << Head(sorted) >> \o InsertMarker_before_ties(Tail(sorted), m)

\* insert m after every element that does not order strictly after it (stable)
RECURSIVE InsertMarker(_, _)
InsertMarker(sorted, m) ==
    IF sorted = <<>> THEN << m >>
    ELSE IF MarkerLess(m, Head(sorted)) THEN << m >> \o sorted
    ELSE << Head(sorted) >> \o InsertMarker(Tail(sorted), m)

RECURSIVE SortMarkers(_)
SortMarkers(ms) ==
    IF ms = <<>> THEN <<>>
    ELSE InsertMarker(SortMarkers(SubSeq(ms, 1, Len(ms) - 1)), ms[Len(ms)])

mixed_events_of(src, tgt) ==
    SortMarkers(MarkersOf(src, "Source") \o MarkersOf(tgt, "Target"))

\* variant: the source that became active first is the one removed
PositionOf_oldest(act, a, i) == IF act = <<>> THEN 0 ELSE 1

\* position(|e| ptr::eq(e, ref)): first index holding that address, 0 if none
RECURSIVE PositionOf(_, _, _)
PositionOf(act, a, i) ==
    IF i > Len(act) THEN 0
    ELSE IF act[i].addr = a THEN i
    ELSE PositionOf(act, a, i + 1)

RemoveAt(s, p) == SubSeq(s, 1, p - 1) \o SubSeq(s, p + 1, Len(s))

\* variant: the new element is put at the front of the list
PushEntry_front(m, k, t) ==
    IF k \in DOMAIN m THEN [m EXCEPT ![k] = << t >> \o @]
    ELSE m @@ (k :> << t >>)

\* entry(idx).or_insert_with(Vec::new).push(t)
PushEntry(m, k, t) ==
    IF k \in DOMAIN m THEN [m EXCEPT ![k] = Append(@, t)]
    ELSE m @@ (k :> << t >>)

\* target start: push onto the list of every active source, in active order
RECURSIVE PushToActive(_, _, _, _)
PushToActive(rbi, act, idxmap, t) ==
    IF act = <<>> THEN rbi
    ELSE PushToActive(PushEntry(rbi, idxmap[Head(act).addr], t), Tail(act), idxmap, t)

\* one iteration of the sweep loop on the state st = [active, rbi]
ProcessMarker(st, m, idxmap) ==
    IF m.event_type = 1
    THEN IF m.origin = "Source"
         THEN [st EXCEPT !.active = Append(@, m.event_ref)]
         ELSE [st EXCEPT !.rbi = PushToActive(@, st.active, idxmap, m.event_ref)]
    ELSE IF m.origin = "Source"
         THEN LET p == PositionOf(st.active, m.event_ref.addr, 1)
              IN  IF p > 0 THEN [st EXCEPT !.active = RemoveAt(@, p)] ELSE st
         ELSE st

\* the final loop: re-key result_by_index by the identity of the source
ConvertResult(rbi, src) ==
    [id \in {get_event_id(src[i]) : i \in DOMAIN rbi} |->
        rbi[CHOOSE i \in DOMAIN rbi : get_event_id(src[i]) = id]]

EmptyMap == [k \in {} |-> <<>>]

RECURSIVE SweepAll(_, _, _)
SweepAll(st, ms, idxmap) ==
    IF ms = <<>> THEN st
    ELSE SweepAll(ProcessMarker(st, Head(ms), idxmap), Tail(ms), idxmap)

find_overlapping_intervals(src, tgt) ==
    LET st == SweepAll([active |-> <<>>, rbi |-> EmptyMap],
                       mixed_events_of(src, tgt), source_index_map(src))
    IN  ConvertResult(st.rbi, src)

(***************************************************************************)
(* build_correlation_map and find_kernels_for_annotation.                  *)
(***************************************************************************)
\* variant: a kernel whose bucket exists already replaces the bucket
CorrelationStep_replacing(cm, kernel_event) ==
    LET corr_id == get_correlation_id(kernel_event)
    IN  IF corr_id.some THEN cm @@ (corr_id.v :> << kernel_event >>) ELSE cm

\* the loop body of build_correlation_map
CorrelationStep(cm, kernel_event) ==
    LET corr_id == get_correlation_id(kernel_event)
    IN  IF corr_id.some THEN PushEntry(cm, corr_id.v, kernel_event) ELSE cm

RECURSIVE CorrelationLoop(_, _)
CorrelationLoop(cm, kernels) ==
    IF kernels = <<>> THEN cm
    ELSE CorrelationLoop(CorrelationStep(cm, Head(kernels)), Tail(kernels))

build_correlation_map(kernels) == CorrelationLoop(EmptyMap, kernels)

\* variant: only the first API call that reaches a kernel contributes
FindKernelsStep_first_call_only(found, api_event, cm) ==
    LET corr_id == get_correlation_id(api_event)
    IN  IF found = <<>> /\ corr_id.some /\ corr_id.v \in DOMAIN cm /\ cm[corr_id.v] # <<>>
        THEN found \o cm[corr_id.v]
        ELSE found

\* variant: an API call without identifier reaches the kernels of identifier 1
FindKernelsStep_default_id(found, api_event, cm) ==
    LET corr_id == get_correlation_id(api_event)
        c == IF corr_id.some THEN corr_id.v ELSE 1
    IN  IF c \in DOMAIN cm /\ cm[c] # <<>> THEN found \o cm[c] ELSE found

\* variant: the kernels of an API call are put before those found so far
FindKernelsStep_newest_first(found, api_event, cm) ==
    LET corr_id == get_correlation_id(api_event)
    IN  IF corr_id.some /\ corr_id.v \in DOMAIN cm /\ cm[corr_id.v] # <<>>
        THEN cm[corr_id.v] \o found
        ELSE found

\* the loop body of find_kernels_for_annotation
FindKernelsStep(found, api_event, cm) ==
    LET corr_id == get_correlation_id(api_event)
    IN  IF corr_id.some /\ corr_id.v \in DOMAIN cm /\ cm[corr_id.v] # <<>>
        THEN found \o cm[corr_id.v]
        ELSE found

RECURSIVE FindKernelsLoop(_, _, _)
FindKernelsLoop(found, apis, cm) ==
    IF apis = <<>> THEN found
    ELSE FindKernelsLoop(FindKernelsStep(found, Head(apis), cm), Tail(apis), cm)

find_kernels_for_annotation(overlapping_api_events, cm) ==
    FindKernelsLoop(<<>>, overlapping_api_events, cm)

(***************************************************************************)
(* aggregate_kernel_times.                                                 *)
(***************************************************************************)
MinOf(a, b) == IF a <= b THEN a ELSE b
MaxOf(a, b) == IF a >= b THEN a ELSE b

\* variant: the end of the last kernel replaces the running maximum
AggregateStep_last_end(st, r) ==
    [start |-> Some(IF st.start.some THEN MinOf(st.start.v, r[1]) ELSE r[1]),
     end |-> Some(r[2])]

\* the loop body for a kernel with time range r, on st = [start, end] Options
AggregateStep(st, r) ==
    [start |-> Some(IF st.start.some THEN MinOf(st.start.v, r[1]) ELSE r[1]),
     end |-> Some(IF st.end.some THEN MaxOf(st.end.v, r[2]) ELSE r[2])]

RECURSIVE AggregateLoop(_, _)
AggregateLoop(st, kernels) ==
    IF kernels = <<>> THEN st
    ELSE LET r == get_time_range(Head(kernels))
         IN  AggregateLoop(IF r.some THEN AggregateStep(st, r.v) ELSE st, Tail(kernels))

aggregate_kernel_times(kernels) ==
    LET st == AggregateLoop([start |-> None, end |-> None], kernels)
    IN  IF st.start.some /\ st.end.some THEN Some(<< st.start.v, st.end.v >>) ELSE None

(***************************************************************************)
(* HashMap of the options: nvtx_color_scheme.  The entries of a map are    *)
(* kept in the order its iterator yields them.                             *)
(***************************************************************************)
\* HashMap::insert: a key already present takes the new value
RECURSIVE MapInsert(_, _, _)
MapInsert(entries, k, v) ==
    IF entries = <<>> THEN << [pattern |-> k, color |-> v] >>
    ELSE IF Head(entries).pattern = k THEN << [pattern |-> k, color |-> v] >> \o Tail(entries)
    ELSE << Head(entries) >> \o MapInsert(Tail(entries), k, v)

RECURSIVE InsertAll(_, _)
InsertAll(entries, rules) ==
    IF rules = <<>> THEN entries
    ELSE InsertAll(MapInsert(entries, Head(rules).pattern, Head(rules).color), Tail(rules))

Reverse(s) == [i \in DOMAIN s |-> s[Len(s) + 1 - i]]
Rotate(s, r) == [i \in DOMAIN s |-> s[((i - 1 + r) % Len(s)) + 1]]

\* the iterator of a HashMap yields the entries in an order fixed by the
\* hasher's random seed, not by the insertions
IterationOrder(entries, seed) ==
    IF seed.rev THEN Reverse(Rotate(entries, seed.rot)) ELSE Rotate(entries, seed.rot)

(***************************************************************************)
(* link_nvtx_to_kernels, the orchestrator.                                 *)
(***************************************************************************)
\* args["deviceId"]
device_of(event) == as_i64(event.deviceId)

\* variant: the partition of a device holds the events of every device
on_device_unfiltered(events, d) == events

on_device(events, d) == SelectSeq(events, LAMBDA e : device_of(e) = Some(d))

devices_of(events) ==
    {device_of(events[i]).v : i \in {j \in DOMAIN events : device_of(events[j]).some}}

\* the devices that carry an annotation, an API call and a kernel
common_devices(nvtx, api, kernels) ==
    devices_of(nvtx) \cap devices_of(api) \cap devices_of(kernels)

RECURSIVE Ascending(_)
Ascending(S) ==
    IF S = {} THEN <<>>
    ELSE LET m == CHOOSE x \in S : \A y \in S : x <= y
         IN  << m >> \o Ascending(S \ {m})

\* nanoseconds / 1000.0: the microsecond value, whole part and remainder
to_micros(ns) == [us |-> ns \div 1000, frac_ns |-> ns % 1000]

\* Regex::is_match of the sample patterns on a name << kind, index >>
\* (written kind_index): "nvtx.*" matches every annotation, ".*1" the names
\* that end in 1, any other pattern ("kernel.*") no annotation
Matches(pattern, name) ==
    CASE pattern = "nvtx.*" -> name[1] = "nvtx"
      [] pattern = ".*1" -> name[2] = 1
      [] OTHER -> FALSE

\* the colour of the first entry, in the iteration order of the colour map,
\* whose pattern matches the name
RECURSIVE color_for(_, _)
color_for(name, scheme) ==
    IF scheme = <<>> THEN None
    ELSE IF Matches(Head(scheme).pattern, name) THEN Some(Head(scheme).color)
    ELSE color_for(name, Tail(scheme))

derived_event(annotation, span, scheme) ==
    [name |-> annotation.name, cat |-> "nvtx-kernel", ph |-> "X",
     ts |-> to_micros(span[1]), dur |-> to_micros(span[2] - span[1]),
     cname |-> color_for(annotation.name, scheme)]

\* steps 4-5 for one annotation, on st = [events, mapping]
LinkAnnotation(st, annotation, overlap_map, cm, scheme) ==
    LET id == get_event_id(annotation)
    IN  IF id \notin DOMAIN overlap_map THEN st
        ELSE LET found == find_kernels_for_annotation(overlap_map[id], cm)
                 span == aggregate_kernel_times(found)
             IN  IF found = <<>> \/ ~span.some THEN st
                 ELSE LET d == derived_event(annotation, span.v, scheme)
                      IN  [events |-> Append(st.events, d),
                           mapping |-> (id :> d) @@ st.mapping]

\* variant: the annotations are visited in the iteration order of a hash map
\* keyed by their identity
RECURSIVE LinkAnnotations_in_map_order(_, _, _, _, _)
LinkAnnotations_in_map_order(st, annotations, overlap_map, cm, scheme) ==
    IF annotations = <<>> THEN st
    ELSE LET order == IterationOrder(annotations, hash_seed)
         IN  LinkAnnotations_in_map_order(
                 LinkAnnotation(st, Head(order), overlap_map, cm, scheme),
                 Tail(order), overlap_map, cm, scheme)

RECURSIVE LinkAnnotations(_, _, _, _, _)
LinkAnnotations(st, annotations, overlap_map, cm, scheme) ==
    IF annotations = <<>> THEN st
    ELSE LinkAnnotations(LinkAnnotation(st, Head(annotations), overlap_map, cm, scheme),
                         Tail(annotations), overlap_map, cm, scheme)

flow_pair(api_event, kernel_event, id) ==
    << [cat |-> "cuda_flow", ph |-> "s", id |-> id, bp |-> None,
        anchor |-> api_event.addr],
       [cat |-> "cuda_flow", ph |-> "f", id |-> id, bp |-> Some("e"),
        anchor |-> kernel_event.addr] >>

\* variant: the identifier is not advanced after a pair
RECURSIVE FlowsToKernels_reused_id(_, _, _)
FlowsToKernels_reused_id(st, api_event, kernels) ==
    IF kernels = <<>> THEN st
    ELSE FlowsToKernels_reused_id(
             [flows |-> st.flows \o flow_pair(api_event, Head(kernels), st.next_id),
              next_id |-> st.next_id],
             api_event, Tail(kernels))

\* one flow-start / flow-finish pair per kernel launched by the API call,
\* on st = [flows, next_id]
RECURSIVE FlowsToKernels(_, _, _)
FlowsToKernels(st, api_event, kernels) ==
    IF kernels = <<>> THEN st
    ELSE FlowsToKernels([flows |-> st.flows \o flow_pair(api_event, Head(kernels), st.next_id),
                         next_id |-> st.next_id + 1],
                        api_event, Tail(kernels))

\* variant: no flow edge is drawn from the API calls of the device
FlowsOfDevice_none(st, apis, cm) == st

RECURSIVE FlowsOfDevice(_, _, _)
FlowsOfDevice(st, apis, cm) ==
    IF apis = <<>> THEN st
    ELSE FlowsOfDevice(FlowsToKernels(st, Head(apis),
                                      find_kernels_for_annotation(<< Head(apis) >>, cm)),
                       Tail(apis), cm)

\* steps 2-5 for the partition of device d, on
\* st = [events, mapping, flows, next_id]
LinkPartition(st, d, annotations, apis, kernels, scheme) ==
    LET nvtx == on_device(annotations, d)
        api == on_device(apis, d)
        overlap_map == find_overlapping_intervals(nvtx, api)
        cm == build_correlation_map(on_device(kernels, d))
        fl == FlowsOfDevice([flows |-> st.flows, next_id |-> st.next_id], api, cm)
        linked == LinkAnnotations([events |-> st.events, mapping |-> st.mapping],
                                  nvtx, overlap_map, cm, scheme)
    IN  [events |-> linked.events, mapping |-> linked.mapping,
         flows |-> fl.flows, next_id |-> fl.next_id]

(***************************************************************************)
(* Groups of variables and their values before a call.                     *)
(***************************************************************************)
sweepVars == << source_events, target_events, mixed_events, pos,
                active_source_intervals, result_by_index, result, aggregate >>
corrVars == << kernel_events, cuda_api_events, correlation_map, found_kernels >>
linkVars == << nvtx_events, devices, nvtx_kernel_events, mapped_identifiers,
               flow_events, next_flow_id >>

optionVars == << color_rules, nvtx_color_scheme, hash_seed >>
workerVars == << partition_out >>
gzVars == << writer_mode, batch_buffer, encoder >>
writerVars == << trace_events, file_exists, file_bytes, writer_buf, event_index, gzVars >>

vars == << pc, sweepVars, corrVars, linkVars, optionVars, workerVars, writerVars >>

SweepIdle ==
    /\ source_events = <<>> /\ target_events = <<>>
    /\ mixed_events = <<>> /\ pos = 1
    /\ active_source_intervals = <<>>
    /\ result_by_index = EmptyMap /\ result = EmptyMap
    /\ aggregate = None

CorrResultsEmpty == correlation_map = EmptyMap /\ found_kernels = <<>>

CorrIdle == kernel_events = <<>> /\ cuda_api_events = <<>> /\ CorrResultsEmpty

LinkResultsEmpty ==
    /\ devices = <<>> /\ nvtx_kernel_events = <<>>
    /\ mapped_identifiers = EmptyMap
    /\ flow_events = <<>> /\ next_flow_id = 1

LinkIdle == nvtx_events = <<>> /\ LinkResultsEmpty

WorkersIdle == partition_out = EmptyMap

\* an encoder that was handed nothing: input is every byte handed to it so
\* far, pending the bytes not yet cut into a block, blocks the blocks given to
\* the pool, emitted the blocks the writer thread wrote, in the order it did
NewEncoder ==
    [input |-> <<>>, pending |-> <<>>, blocks |-> <<>>, emitted |-> <<>>,
     header |-> FALSE, trailer |-> FALSE, failed |-> FALSE]

GzIdle == writer_mode = "plain" /\ batch_buffer = <<>> /\ encoder = NewEncoder

WriterIdle ==
    /\ trace_events = <<>>
    /\ file_exists = FALSE /\ file_bytes = <<>>
    /\ writer_buf = <<>> /\ event_index = 1
    /\ GzIdle

\* ConversionOptions::default(): no colour rule
DefaultSeed == [rot |-> 0, rev |-> FALSE]
DefaultOptions ==
    color_rules = <<>> /\ nvtx_color_scheme = <<>> /\ hash_seed = DefaultSeed

(***************************************************************************)
(* Inputs.                                                                 *)
(***************************************************************************)
\* ts is the display timestamp (microseconds), kept apart from the args bag
DisplayTs == 100

Event(a, n, s, e, d, c) ==
    [addr |-> a, name |-> n, ts |-> DisplayTs, start_ns |-> s, end_ns |-> e,
     deviceId |-> d, correlationId |-> c]

SeqsUpTo(S, n) == UNION {[1 .. k -> S] : k \in 0 .. n}

\* events stored at distinct addresses: sources at 1.., targets after them
\* three time points give every order of two bounds against two others; an
\* event without a time range lacks its start, its end, or both
Times == {0, 1, 2}
Ranged == {<< IntAttr(s), IntAttr(e) >> : s \in Times, e \in Times}
Rangeless == {<< Absent, IntAttr(2) >>, << IntAttr(0), Absent >>, << Absent, Absent >>}
Contents == Ranged \cup Rangeless
Place(cs, base) ==
    [i \in DOMAIN cs |-> Event(base + i, "ev", cs[i][1], cs[i][2], Absent, Absent)]

InitSweep ==
    /\ pc = "build"
    /\ \E sc \in SeqsUpTo(Contents, MaxSrc), tc \in SeqsUpTo(Contents, MaxTgt),
          alias \in {"none", "dup_source", "shared"} :
          LET src == Place(sc, 0)
              tgt == Place(tc, MaxSrc)
          IN  \/ /\ alias = "none"
                 /\ source_events = src
                 /\ target_events = tgt
              \/ /\ alias = "dup_source"      \* the same reference twice
                 /\ Len(src) >= 2
                 /\ source_events = [src EXCEPT ![2] = src[1]]
                 /\ target_events = tgt
              \/ /\ alias = "shared"          \* one event in both lists
                 /\ Len(src) >= 1 /\ Len(tgt) >= 1
                 /\ source_events = src
                 /\ target_events = [tgt EXCEPT ![1] = src[1]]
    /\ mixed_events = <<>>
    /\ pos = 1
    /\ active_source_intervals = <<>>
    /\ result_by_index = EmptyMap
    /\ result = EmptyMap
    /\ aggregate = None
    /\ CorrIdle
    /\ LinkIdle
    /\ DefaultOptions
    /\ WorkersIdle
    /\ WriterIdle

(***************************************************************************)
(* find_overlapping_intervals, one action per part of the function and     *)
(* per kind of marker the loop meets.                                      *)
(***************************************************************************)
\* lines 33-90: index map, marker list, sort
BuildMarkers ==
    /\ pc = "build"
    /\ mixed_events' = mixed_events_of(source_events, target_events)
    /\ pc' = "sweep"
    /\ UNCHANGED << source_events, target_events, pos, active_source_intervals,
                    result_by_index, result, aggregate, corrVars, linkVars, optionVars, workerVars, writerVars >>

SweepStep(ty, org) ==
    /\ pc = "sweep"
    /\ pos <= Len(mixed_events)
    /\ mixed_events[pos].event_type = ty
    /\ mixed_events[pos].origin = org
    /\ LET st == ProcessMarker([active |-> active_source_intervals,
                                rbi |-> result_by_index],
                               mixed_events[pos], source_index_map(source_events))
       IN  /\ active_source_intervals' = st.active
           /\ result_by_index' = st.rbi
    /\ pos' = pos + 1
    /\ UNCHANGED << pc, source_events, target_events, mixed_events, result,
                    aggregate, corrVars, linkVars, optionVars, workerVars, writerVars >>

SourceStart == SweepStep(1, "Source")
TargetStart == SweepStep(1, "Target")
SourceEnd == SweepStep(-1, "Source")
TargetEnd == SweepStep(-1, "Target")

\* lines 125-133
Convert ==
    /\ pc = "sweep"
    /\ pos > Len(mixed_events)
    /\ result' = ConvertResult(result_by_index, source_events)
    /\ pc' = "done"
    /\ UNCHANGED << source_events, target_events, mixed_events, pos,
                    active_source_intervals, result_by_index, aggregate,
                    corrVars, linkVars, optionVars, workerVars, writerVars >>

\* the caller then reduces the target slice with aggregate_kernel_times
Aggregate ==
    /\ pc = "done"
    /\ aggregate' = aggregate_kernel_times(target_events)
    /\ pc' = "aggregated"
    /\ UNCHANGED << source_events, target_events, mixed_events, pos,
                    active_source_intervals, result_by_index, result,
                    corrVars, linkVars, optionVars, workerVars, writerVars >>

NextSweep ==
    \/ BuildMarkers
    \/ SourceStart
    \/ TargetStart
    \/ SourceEnd
    \/ TargetEnd
    \/ Convert
    \/ Aggregate

SpecSweep == InitSweep /\ [][NextSweep]_vars

(***************************************************************************)
(* find_overlapping_intervals on lists of several sources and targets, all *)
(* stored at distinct addresses.                                           *)
(***************************************************************************)
Instants == {0, 1}
ReorderContents ==
    {<< IntAttr(s), IntAttr(e) >> : s \in Instants, e \in Instants}
        \cup {<< Absent, Absent >>}

InitReorder ==
    /\ pc = "build"
    /\ \E sc \in SeqsUpTo(ReorderContents, MaxReorder),
          tc \in SeqsUpTo(ReorderContents, MaxReorder) :
          /\ source_events = Place(sc, 0)
          /\ target_events = Place(tc, MaxReorder)
    /\ mixed_events = <<>>
    /\ pos = 1
    /\ active_source_intervals = <<>>
    /\ result_by_index = EmptyMap
    /\ result = EmptyMap
    /\ aggregate = None
    /\ CorrIdle
    /\ LinkIdle
    /\ DefaultOptions
    /\ WorkersIdle
    /\ WriterIdle

SpecReorder == InitReorder /\ [][NextSweep]_vars

(***************************************************************************)
(* build_correlation_map and find_kernels_for_annotation on drawn lists.   *)
(***************************************************************************)
\* stored correlationId values: missing, not an integer, small integers, and
\* integers above the 32-bit range whose low word is a small integer
CorrAttrs ==
    {Absent, NonInteger}
        \cup {IntAttr(Int64(hi, lo)) : hi \in {0, 1}, lo \in {1, 2}}

PlaceCorr(cs, base, n) ==
    [i \in DOMAIN cs |->
        Event(base + i, n, IntAttr(base + i), IntAttr(base + i + 1), IntAttr(0), cs[i])]

InitCorr ==
    /\ pc = "corr_build"
    /\ \E kc \in SeqsUpTo(CorrAttrs, MaxKernels), ac \in SeqsUpTo(CorrAttrs, MaxApi),
          dup \in BOOLEAN :
          LET ks == PlaceCorr(kc, MaxApi, "kernel")
          IN  /\ dup => Len(ks) >= 2
              /\ kernel_events = IF dup THEN [ks EXCEPT ![Len(ks)] = ks[1]] ELSE ks
              /\ cuda_api_events = PlaceCorr(ac, 0, "api")
    /\ CorrResultsEmpty
    /\ SweepIdle
    /\ LinkIdle
    /\ DefaultOptions
    /\ WorkersIdle
    /\ WriterIdle

BuildCorrelationMap ==
    /\ pc = "corr_build"
    /\ correlation_map' = build_correlation_map(kernel_events)
    /\ pc' = "corr_built"
    /\ UNCHANGED << kernel_events, cuda_api_events, found_kernels, sweepVars, linkVars, optionVars, workerVars, writerVars >>

FindKernelsForAnnotation ==
    /\ pc = "corr_built"
    /\ found_kernels' = find_kernels_for_annotation(cuda_api_events, correlation_map)
    /\ pc' = "found"
    /\ UNCHANGED << kernel_events, cuda_api_events, correlation_map, sweepVars, linkVars, optionVars, workerVars, writerVars >>

NextCorr ==
    \/ BuildCorrelationMap
    \/ FindKernelsForAnnotation

SpecCorr == InitCorr /\ [][NextCorr]_vars

(***************************************************************************)
(* The four functions of the engine on any input: time fields that are     *)
(* missing or not integers, end < start, a reference given twice, an event *)
(* in both lists, empty lists.                                             *)
(***************************************************************************)
AnyContents ==
    {<< IntAttr(0), IntAttr(1) >>, << IntAttr(1), IntAttr(0) >>,
     << IntAttr(1), IntAttr(1) >>, << NonInteger, IntAttr(1) >>,
     << IntAttr(0), Absent >>}

InitAnySweep ==
    /\ pc = "build"
    /\ \E sc \in SeqsUpTo(AnyContents, MaxReorder),
          tc \in SeqsUpTo(AnyContents, MaxReorder),
          alias \in {"none", "dup_source", "shared"} :
          LET src == Place(sc, 0)
              tgt == Place(tc, MaxReorder)
          IN  \/ /\ alias = "none"
                 /\ source_events = src
                 /\ target_events = tgt
              \/ /\ alias = "dup_source"      \* the same reference twice
                 /\ Len(src) >= 2
                 /\ source_events = [src EXCEPT ![2] = src[1]]
                 /\ target_events = tgt
              \/ /\ alias = "shared"          \* one event in both lists
                 /\ Len(src) >= 1 /\ Len(tgt) >= 1
                 /\ source_events = src
                 /\ target_events = [tgt EXCEPT ![Len(tgt)] = src[1]]
    /\ mixed_events = <<>>
    /\ pos = 1
    /\ active_source_intervals = <<>>
    /\ result_by_index = EmptyMap
    /\ result = EmptyMap
    /\ aggregate = None
    /\ CorrIdle
    /\ LinkIdle
    /\ DefaultOptions
    /\ WorkersIdle
    /\ WriterIdle

InitEngine == InitAnySweep \/ InitCorr

NextEngine ==
    \/ NextSweep
    \/ NextCorr

SpecEngine == InitEngine /\ [][NextEngine]_vars

(***************************************************************************)
(* link_nvtx_to_kernels on drawn lists, one action per device partition.   *)
(***************************************************************************)
Ticks(r) == << IntAttr(r[1] * TimeUnit), IntAttr(r[2] * TimeUnit) >>
NoRange == << Absent, Absent >>
Corr(n) == IntAttr(Int64(0, n))

\* annotations of devices 0 and 1 that cover the API calls, and one of device 0
\* that starts after them
Covering == Ticks(<< 0, 4 >>)
Late == Ticks(<< 3, 4 >>)
AnnSamples == {<< Covering, 0, Absent >>, << Late, 0, Absent >>, << Covering, 1, Absent >>}

\* API calls: two identifiers on device 0, one call without identifier, one
\* call on device 1
ApiSamples ==
    {<< Ticks(<< 1, 2 >>), 0, Corr(1) >>, << Ticks(<< 1, 2 >>), 0, Corr(2) >>,
     << Ticks(<< 1, 2 >>), 0, Absent >>, << Ticks(<< 1, 2 >>), 1, Corr(1) >>}

\* kernels: one per identifier on device 0 with different spans, a kernel of
\* device 1, and a kernel without time range
KernelSamples ==
    {<< Ticks(<< 6, 9 >>), 0, Corr(1) >>, << Ticks(<< 5, 8 >>), 0, Corr(2) >>,
     << Ticks(<< 5, 8 >>), 1, Corr(1) >>, << NoRange, 0, Corr(1) >>}

PlaceLink(cs, base, n) ==
    [i \in DOMAIN cs |->
        Event(base + i, << n, i >>, cs[i][1][1], cs[i][1][2], IntAttr(cs[i][2]), cs[i][3])]

InitLink ==
    /\ pc = "link"
    /\ \E nc \in SeqsUpTo(AnnSamples, MaxNvtx),
          ac \in SeqsUpTo(ApiSamples, MaxLinkApi),
          kc \in SeqsUpTo(KernelSamples, MaxLinkKernels) :
          /\ nvtx_events = PlaceLink(nc, 0, "nvtx")
          /\ cuda_api_events = PlaceLink(ac, MaxNvtx, "api")
          /\ kernel_events = PlaceLink(kc, MaxNvtx + MaxLinkApi, "kernel")
    /\ LinkResultsEmpty
    /\ CorrResultsEmpty
    /\ SweepIdle
    /\ DefaultOptions
    /\ WorkersIdle
    /\ WriterIdle

\* step 1: partition by device, keep the devices common to the three lists
Partition ==
    /\ pc = "link"
    /\ devices' = Ascending(common_devices(nvtx_events, cuda_api_events, kernel_events))
    /\ pc' = "devices"
    /\ UNCHANGED << nvtx_events, nvtx_kernel_events, mapped_identifiers, flow_events,
                    next_flow_id, corrVars, sweepVars, optionVars, workerVars, writerVars >>

\* steps 2-5 for the next device partition
LinkDevice ==
    /\ pc = "devices"
    /\ devices # <<>>
    /\ LET st == LinkPartition([events |-> nvtx_kernel_events,
                                 mapping |-> mapped_identifiers,
                                 flows |-> flow_events, next_id |-> next_flow_id],
                                Head(devices), nvtx_events, cuda_api_events,
                                kernel_events, nvtx_color_scheme)
       IN  /\ flow_events' = st.flows
           /\ next_flow_id' = st.next_id
           /\ nvtx_kernel_events' = st.events
           /\ mapped_identifiers' = st.mapping
    /\ devices' = Tail(devices)
    /\ UNCHANGED << pc, nvtx_events, corrVars, sweepVars, optionVars, workerVars, writerVars >>

\* step 6: every partition processed, the three collections are returned
ReturnLinked ==
    /\ pc = "devices"
    /\ devices = <<>>
    /\ pc' = "linked"
    /\ UNCHANGED << linkVars, corrVars, sweepVars, optionVars, workerVars, writerVars >>

NextLink ==
    \/ Partition
    \/ LinkDevice
    \/ ReturnLinked

SpecLink == InitLink /\ [][NextLink]_vars

(***************************************************************************)
(* link_nvtx_to_kernels with a colour scheme: the annotations and the      *)
(* inserts into the colour map are drawn, the API calls and the kernels    *)
(* are one fixed list each.                                                *)
(***************************************************************************)
Rule(p, c) == [pattern |-> p, color |-> c]
RuleSamples ==
    {Rule("nvtx.*", "thread_state_running"), Rule(".*1", "good"),
     Rule("kernel.*", "bad"), Rule("nvtx.*", "good")}

Seeds == [rot : {0, 1, 2}, rev : BOOLEAN]

FixedApis ==
    << << Ticks(<< 1, 2 >>), 0, Corr(1) >>, << Ticks(<< 1, 2 >>), 0, Corr(2) >>,
       << Ticks(<< 1, 2 >>), 1, Corr(1) >> >>
FixedKernels ==
    << << Ticks(<< 6, 9 >>), 0, Corr(1) >>, << Ticks(<< 5, 8 >>), 0, Corr(2) >>,
       << Ticks(<< 5, 8 >>), 1, Corr(1) >>, << NoRange, 0, Corr(1) >> >>

InitOptions ==
    /\ pc = "link"
    /\ \E nc \in SeqsUpTo(AnnSamples, MaxNvtx) :
          nvtx_events = PlaceLink(nc, 0, "nvtx")
    /\ cuda_api_events = PlaceLink(FixedApis, MaxNvtx, "api")
    /\ kernel_events = PlaceLink(FixedKernels, MaxNvtx + Len(FixedApis), "kernel")
    /\ \E rules \in SeqsUpTo(RuleSamples, MaxRules), seed \in Seeds :
          /\ color_rules = rules
          /\ hash_seed = seed
          /\ nvtx_color_scheme = IterationOrder(InsertAll(<<>>, rules), seed)
    /\ LinkResultsEmpty
    /\ CorrResultsEmpty
    /\ SweepIdle
    /\ WorkersIdle
    /\ WriterIdle

SpecOptions == InitOptions /\ [][NextLink]_vars

(***************************************************************************)
(* The caller after link_nvtx_to_kernels returned: it owns the annotation  *)
(* Vec and the returned mapping, and may store the events elsewhere.       *)
(***************************************************************************)
\* Vec::remove(0): the first annotation is dropped, every later annotation
\* moves down to the slot of its predecessor
RemoveFirst ==
    /\ pc = "linked"
    /\ nvtx_events # <<>>
    /\ nvtx_events' =
          [i \in 1 .. (Len(nvtx_events) - 1) |->
              [nvtx_events[i + 1] EXCEPT !.addr = nvtx_events[i].addr]]
    /\ pc' = "moved"
    /\ UNCHANGED << devices, nvtx_kernel_events, mapped_identifiers, flow_events,
                    next_flow_id, corrVars, sweepVars, optionVars, workerVars, writerVars >>

NextMove ==
    \/ NextLink
    \/ RemoveFirst

SpecMove == InitLink /\ [][NextMove]_vars

(***************************************************************************)
(* The device partitions processed by independent workers: each worker     *)
(* runs steps 2-5 on its partition with working structures of its own, and *)
(* the outputs are concatenated once every worker has finished.            *)
(***************************************************************************)
\* the working structures a worker starts from
LocalState == [events |-> <<>>, mapping |-> EmptyMap, flows |-> <<>>, next_id |-> 1]

\* the sequential linker: the partitions one after another on one state
RECURSIVE LinkAllDevices(_, _, _, _, _, _)
LinkAllDevices(st, devs, annotations, apis, kernels, scheme) ==
    IF devs = <<>> THEN st
    ELSE LinkAllDevices(LinkPartition(st, Head(devs), annotations, apis, kernels, scheme),
                        Tail(devs), annotations, apis, kernels, scheme)

\* concatenation of the finished partitions, in the order of the devices
RECURSIVE Concatenate(_, _, _)
Concatenate(st, devs, outs) ==
    IF devs = <<>> THEN st
    ELSE LET o == outs[Head(devs)].out
         IN  Concatenate([events |-> st.events \o o.events,
                          mapping |-> o.mapping @@ st.mapping,
                          flows |-> st.flows \o o.flows,
                          next_id |-> st.next_id],
                         Tail(devs), outs)

InitWorkers ==
    /\ pc = "link"
    /\ \E nc \in SeqsUpTo(AnnSamples, MaxNvtx), ac \in SeqsUpTo(ApiSamples, MaxLinkApi) :
          /\ nvtx_events = PlaceLink(nc, 0, "nvtx")
          /\ cuda_api_events = PlaceLink(ac, MaxNvtx, "api")
    /\ kernel_events = PlaceLink(FixedKernels, MaxNvtx + MaxLinkApi, "kernel")
    /\ LinkResultsEmpty
    /\ CorrResultsEmpty
    /\ SweepIdle
    /\ DefaultOptions
    /\ WorkersIdle
    /\ WriterIdle

\* a worker takes the partition of device d
WorkerStart(d) ==
    /\ pc = "devices"
    /\ d \in {devices[i] : i \in DOMAIN devices}
    /\ d \notin DOMAIN partition_out
    /\ partition_out' = partition_out @@ (d :> [finished |-> FALSE, out |-> LocalState])
    /\ UNCHANGED << pc, linkVars, corrVars, sweepVars, optionVars, writerVars >>

\* the worker of device d runs steps 2-5 on its partition
WorkerRun(d) ==
    /\ pc = "devices"
    /\ d \in DOMAIN partition_out
    /\ ~partition_out[d].finished
    /\ partition_out' =
          [partition_out EXCEPT
              ![d] = [finished |-> TRUE,
                      out |-> LinkPartition(partition_out[d].out, d, nvtx_events,
                                            cuda_api_events, kernel_events,
                                            nvtx_color_scheme)]]
    /\ UNCHANGED << pc, linkVars, corrVars, sweepVars, optionVars, writerVars >>

\* every partition complete: the outputs are merged by concatenation
Merge ==
    /\ pc = "devices"
    /\ \A i \in DOMAIN devices :
          devices[i] \in DOMAIN partition_out /\ partition_out[devices[i]].finished
    /\ LET st == Concatenate(LocalState, devices, partition_out)
       IN  /\ nvtx_kernel_events' = st.events
           /\ mapped_identifiers' = st.mapping
           /\ flow_events' = st.flows
    /\ pc' = "merged"
    /\ UNCHANGED << nvtx_events, devices, next_flow_id, partition_out, corrVars,
                    sweepVars, optionVars, writerVars >>

NextWorkers ==
    \/ Partition
    \/ \E d \in {0, 1} : WorkerStart(d)
    \/ \E d \in {0, 1} : WorkerRun(d)
    \/ Merge

SpecWorkers == InitWorkers /\ [][NextWorkers]_vars

(***************************************************************************)
(* ChromeTraceWriter::write.  The output is a sequence of tokens: a         *)
(* bracket, a field of an event with its separator, a comma between events. *)
(***************************************************************************)
Opening == << "{", "\"traceEvents\":", "[" >>
Closing == << "]", "}" >>
Comma == << "," >>

Ok(x) == [ok |-> TRUE, v |-> x]
Err == [ok |-> FALSE, v |-> <<>>]

\* serde_json::to_vec(&event): the object with every field of the event, or
\* an error for an event that cannot be serialized
to_vec(event) ==
    IF ~event.serializable THEN Err
    ELSE Ok(<< "{", event.name, event.ph >> \o event.args \o << "}" >>)

\* variant: a comma is written before every event
needs_comma_always(i) == TRUE

\* if i > 0, on the loop index counted from 1
needs_comma(i) == i > 1

\* Write::write_all on the File: every byte, or on an error some of them
file_write_all(bytes, data) ==
    {[file |-> bytes \o data, written |-> Len(data), ok |-> TRUE]}
        \cup {[file |-> bytes \o SubSeq(data, 1, n), written |-> n, ok |-> FALSE] :
                  n \in 0 .. (Len(data) - 1)}

\* BufWriter::flush_buf on w = [buf, file]: what was written leaves the buffer
flush_buf(w) ==
    {[buf |-> SubSeq(w.buf, r.written + 1, Len(w.buf)), file |-> r.file, ok |-> r.ok] :
        r \in file_write_all(w.file, w.buf)}

\* BufWriter::write_all: data that fits is buffered; otherwise the buffer is
\* flushed if data exceeds the spare capacity, and data as large as the
\* capacity goes to the file directly
write_all(w, data) ==
    LET spare == BufCapacity - Len(w.buf)
    IN  IF Len(data) < spare
        THEN {[buf |-> w.buf \o data, file |-> w.file, ok |-> TRUE]}
        ELSE LET flushed == IF Len(data) > spare THEN flush_buf(w)
                            ELSE {[buf |-> w.buf, file |-> w.file, ok |-> TRUE]}
             IN  UNION {IF ~f.ok THEN {f}
                        ELSE IF Len(data) >= BufCapacity
                        THEN {[buf |-> f.buf, file |-> r.file, ok |-> r.ok] :
                                 r \in file_write_all(f.file, data)}
                        ELSE {[buf |-> f.buf \o data, file |-> f.file, ok |-> TRUE]} :
                        f \in flushed}

TraceEvent(n, p, a, s) == [name |-> n, ph |-> p, args |-> a, serializable |-> s]

\* two short events, an event longer than the buffer, and an event whose
\* serialization fails
EventSamples ==
    {TraceEvent("event1", "X", <<>>, TRUE), TraceEvent("event2", "B", <<>>, TRUE),
     TraceEvent("event3", "X", << "arg1", "arg2", "arg3", "arg4" >>, TRUE),
     TraceEvent("event4", "X", <<>>, FALSE)}

InitWriter ==
    /\ pc = "w_create"
    /\ trace_events \in SeqsUpTo(EventSamples, MaxEvents)
    /\ file_exists = FALSE /\ file_bytes = <<>>
    /\ writer_buf = <<>> /\ event_index = 1
    /\ GzIdle
    /\ SweepIdle
    /\ CorrIdle
    /\ LinkIdle
    /\ DefaultOptions
    /\ WorkersIdle

\* the writer takes one of the outcomes of a write, `?` leaves on an error
WriterTakes(outcomes, next) ==
    \E r \in outcomes :
        /\ writer_buf' = r.buf
        /\ file_bytes' = r.file
        /\ pc' = IF r.ok THEN next ELSE "w_failed"

Writer == [buf |-> writer_buf, file |-> file_bytes]

\* File::create and BufWriter::with_capacity: an existing file is truncated
CreateFile ==
    /\ pc = "w_create"
    /\ \/ /\ file_exists' = TRUE /\ file_bytes' = <<>>
          /\ pc' = "w_open"
       \/ /\ UNCHANGED << file_exists, file_bytes >>
          /\ pc' = "w_err"
    /\ UNCHANGED << trace_events, writer_buf, event_index, sweepVars, corrVars,
                    linkVars, optionVars, workerVars, gzVars >>

WriteOpening ==
    /\ pc = "w_open"
    /\ WriterTakes(write_all(Writer, Opening), "w_loop")
    /\ UNCHANGED << trace_events, file_exists, event_index, sweepVars, corrVars,
                    linkVars, optionVars, workerVars, gzVars >>

\* the comma before an event that is not the first
WriteComma ==
    /\ pc = "w_loop"
    /\ event_index <= Len(trace_events)
    /\ needs_comma(event_index)
    /\ WriterTakes(write_all(Writer, Comma), "w_event")
    /\ UNCHANGED << trace_events, file_exists, event_index, sweepVars, corrVars,
                    linkVars, optionVars, workerVars, gzVars >>

\* serialization of the event and its write
WriteEvent ==
    /\ \/ pc = "w_event"
       \/ pc = "w_loop" /\ event_index <= Len(trace_events) /\ ~needs_comma(event_index)
    /\ LET json == to_vec(trace_events[event_index])
       IN  IF json.ok
           THEN /\ WriterTakes(write_all(Writer, json.v), "w_loop")
                /\ event_index' = event_index + 1
           ELSE /\ pc' = "w_failed"
                /\ UNCHANGED << writer_buf, file_bytes, event_index >>
    /\ UNCHANGED << trace_events, file_exists, sweepVars, corrVars,
                    linkVars, optionVars, workerVars, gzVars >>

WriteClosing ==
    /\ pc = "w_loop"
    /\ event_index > Len(trace_events)
    /\ WriterTakes(write_all(Writer, Closing), "w_flush")
    /\ UNCHANGED << trace_events, file_exists, event_index, sweepVars, corrVars,
                    linkVars, optionVars, workerVars, gzVars >>

\* writer.flush() and Ok(())
Flush ==
    /\ pc = "w_flush"
    /\ WriterTakes(flush_buf(Writer), "w_ok")
    /\ UNCHANGED << trace_events, file_exists, event_index, sweepVars, corrVars,
                    linkVars, optionVars, workerVars, gzVars >>

\* an error left the function: the BufWriter is dropped, and its drop tries
\* to flush what it holds
DropWriter ==
    /\ pc = "w_failed"
    /\ \E r \in flush_buf(Writer) :
          /\ file_bytes' = r.file
          /\ writer_buf' = <<>>
    /\ pc' = "w_err"
    /\ UNCHANGED << trace_events, file_exists, event_index, sweepVars, corrVars,
                    linkVars, optionVars, workerVars, gzVars >>

NextWriter ==
    \/ CreateFile
    \/ WriteOpening
    \/ WriteComma
    \/ WriteEvent
    \/ WriteClosing
    \/ Flush
    \/ DropWriter

SpecWriter == InitWriter /\ [][NextWriter]_vars

\* ---------------------------------------------------------------------------
\* write_gz_single_threaded and write_gz: the document is collected in a batch
\* buffer that is handed to a gzip encoder. A gzip stream is one header token,
\* one token per compressed input token, and a trailer token that carries the
\* length of the input.
\* ---------------------------------------------------------------------------
GzHeader == << "gzip_header", "" >>

GzTrailer(n) == << "gzip_trailer", n >>

deflate(data) == [k \in DOMAIN data |-> << "z", data[k] >>]

\* reading a gzip file back: an error unless the stream is complete
gunzip(file) ==
    IF Len(file) < 2 THEN Err
    ELSE IF file[1][1] # "gzip_header" \/ file[Len(file)][1] # "gzip_trailer" THEN Err
    ELSE LET body == SubSeq(file, 2, Len(file) - 1)
         IN  IF /\ \A k \in DOMAIN body : body[k][1] = "z"
                /\ file[Len(file)][2] = Len(body)
             THEN Ok([k \in DOMAIN body |-> body[k][2]])
             ELSE Err

\* the size test after an event was appended to the batch buffer
batch_full_never(batch) == FALSE
batch_full(batch) == Len(batch) >= BatchThreshold

\* the test before the last hand-over of the batch buffer
must_flush_never(batch) == FALSE
must_flush(batch) == batch # <<>>

\* GzEncoder: what a write of data sends to the BufWriter below it
GzEmit(enc, data) == (IF enc.header THEN <<>> ELSE << GzHeader >>) \o deflate(data)

\* GzEncoder::try_finish: the trailer, once
gz_try_finish(enc, w) ==
    IF enc.trailer THEN {[buf |-> w.buf, file |-> w.file, ok |-> TRUE]}
    ELSE write_all(w, (IF enc.header THEN <<>> ELSE << GzHeader >>)
                          \o << GzTrailer(Len(enc.input)) >>)

\* ParCompress: the input is cut into blocks of BlockSize
RECURSIVE CutBlocks(_, _)
CutBlocks(pending, blocks) ==
    IF Len(pending) < BlockSize THEN [pending |-> pending, blocks |-> blocks]
    ELSE CutBlocks(SubSeq(pending, BlockSize + 1, Len(pending)),
                   Append(blocks, [data |-> SubSeq(pending, 1, BlockSize),
                                   compressed |-> FALSE]))

par_write_all(enc, data) ==
    LET c == CutBlocks(enc.pending \o data, enc.blocks)
    IN  [enc EXCEPT !.input = @ \o data, !.pending = c.pending, !.blocks = c.blocks]

\* ParCompress::finish sends what is left as the last block
par_flush_last(enc) ==
    IF enc.pending = <<>> THEN enc
    ELSE [enc EXCEPT !.pending = <<>>,
                     !.blocks = Append(@, [data |-> enc.pending, compressed |-> FALSE])]

\* the block the writer thread of ParCompress writes next
next_block_any_compressed(enc) ==
    {k \in DOMAIN enc.blocks :
        enc.blocks[k].compressed /\ \A j \in DOMAIN enc.emitted : enc.emitted[j] # k}
next_block(enc) ==
    LET k == Len(enc.emitted) + 1
    IN  IF k \in DOMAIN enc.blocks /\ enc.blocks[k].compressed THEN {k} ELSE {}

InitWriters ==
    /\ writer_mode \in {"plain", "gz_single", "gz_par"}
    /\ pc = IF writer_mode = "plain" THEN "w_create" ELSE "g_create"
    /\ trace_events \in SeqsUpTo(EventSamples, MaxEvents)
    /\ file_exists = FALSE /\ file_bytes = <<>>
    /\ writer_buf = <<>> /\ event_index = 1
    /\ batch_buffer = <<>> /\ encoder = NewEncoder
    /\ SweepIdle
    /\ CorrIdle
    /\ LinkIdle
    /\ DefaultOptions
    /\ WorkersIdle

\* File::create, the BufWriter of the single-threaded writer, and the encoder
CreateFileGz ==
    /\ pc = "g_create"
    /\ \/ /\ file_exists' = TRUE /\ file_bytes' = <<>>
          /\ pc' = "g_open"
       \/ /\ UNCHANGED << file_exists, file_bytes >>
          /\ pc' = "w_err"
    /\ UNCHANGED << trace_events, writer_buf, event_index, sweepVars, corrVars,
                    linkVars, optionVars, workerVars, gzVars >>

\* batch_buffer.extend_from_slice(b"{\"traceEvents\":[")
BatchOpening ==
    /\ pc = "g_open"
    /\ batch_buffer' = batch_buffer \o Opening
    /\ pc' = "g_loop"
    /\ UNCHANGED << trace_events, file_exists, file_bytes, writer_buf, event_index,
                    writer_mode, encoder, sweepVars, corrVars, linkVars, optionVars,
                    workerVars >>

\* one turn of the loop up to the size test: the comma, the serialization of
\* the event into the batch buffer, and the test
BatchEvent ==
    /\ pc = "g_loop"
    /\ event_index <= Len(trace_events)
    /\ LET separated == IF needs_comma(event_index) THEN batch_buffer \o Comma
                        ELSE batch_buffer
           json == to_vec(trace_events[event_index])
       IN  IF json.ok
           THEN /\ batch_buffer' = separated \o json.v
                /\ pc' = IF batch_full(batch_buffer') THEN "g_flush" ELSE "g_loop"
                /\ event_index' = event_index + 1
           ELSE /\ batch_buffer' = separated
                /\ pc' = "g_failed"
                /\ UNCHANGED event_index
    /\ UNCHANGED << trace_events, file_exists, file_bytes, writer_buf, writer_mode,
                    encoder, sweepVars, corrVars, linkVars, optionVars, workerVars >>

\* gz_writer.write_all(&batch_buffer) of either writer: the single-threaded
\* encoder writes through the BufWriter, the parallel one queues blocks and
\* fails once its writer thread has failed
EncoderTakes(data, next) ==
    \/ /\ writer_mode = "gz_single"
       /\ \E r \in write_all(Writer, GzEmit(encoder, data)) :
             /\ writer_buf' = r.buf
             /\ file_bytes' = r.file
             /\ pc' = IF r.ok THEN next ELSE "g_failed"
       /\ encoder' = [encoder EXCEPT !.input = @ \o data, !.header = TRUE]
    \/ /\ writer_mode = "gz_par"
       /\ \/ /\ encoder' = par_write_all(encoder, data)
             /\ pc' = next
          \/ /\ encoder.failed
             /\ encoder' = encoder
             /\ pc' = "g_failed"
       /\ UNCHANGED << writer_buf, file_bytes >>

\* the flush of a full batch buffer, and batch_buffer.clear()
FlushBatch ==
    /\ pc = "g_flush"
    /\ EncoderTakes(batch_buffer, "g_loop")
    /\ batch_buffer' = IF pc' = "g_loop" THEN <<>> ELSE batch_buffer
    /\ UNCHANGED << trace_events, file_exists, event_index, writer_mode, sweepVars,
                    corrVars, linkVars, optionVars, workerVars >>

\* batch_buffer.extend_from_slice(b"]}")
BatchClosing ==
    /\ pc = "g_loop"
    /\ event_index > Len(trace_events)
    /\ batch_buffer' = batch_buffer \o Closing
    /\ pc' = "g_last"
    /\ UNCHANGED << trace_events, file_exists, file_bytes, writer_buf, event_index,
                    writer_mode, encoder, sweepVars, corrVars, linkVars, optionVars,
                    workerVars >>

\* the hand-over of what the batch buffer still holds
FlushLast ==
    /\ pc = "g_last"
    /\ IF must_flush(batch_buffer)
       THEN EncoderTakes(batch_buffer, "g_finish")
       ELSE pc' = "g_finish" /\ UNCHANGED << encoder, writer_buf, file_bytes >>
    /\ UNCHANGED << trace_events, file_exists, event_index, writer_mode, batch_buffer,
                    sweepVars, corrVars, linkVars, optionVars, workerVars >>

\* GzEncoder::finish of write_gz_single_threaded: the trailer goes to the
\* BufWriter, which finish hands back
FinishGz ==
    /\ pc = "g_finish"
    /\ writer_mode = "gz_single"
    /\ \E r \in gz_try_finish(encoder, Writer) :
          /\ writer_buf' = r.buf
          /\ file_bytes' = r.file
          /\ pc' = IF r.ok THEN "g_finished" ELSE "g_failed"
          /\ encoder' = [encoder EXCEPT !.header = TRUE, !.trailer = r.ok]
    /\ UNCHANGED << trace_events, file_exists, event_index, writer_mode, batch_buffer,
                    sweepVars, corrVars, linkVars, optionVars, workerVars >>

\* the BufWriter that finish handed back is dropped at the end of the
\* statement: its drop flushes and ignores the result, then Ok(())
DropBufWriter ==
    /\ pc = "g_finished"
    /\ \E r \in flush_buf(Writer) :
          /\ file_bytes' = r.file
          /\ writer_buf' = <<>>
    /\ pc' = "w_ok"
    /\ UNCHANGED << trace_events, file_exists, event_index, gzVars, sweepVars,
                    corrVars, linkVars, optionVars, workerVars >>

\* an error left write_gz_single_threaded: the drop of the GzEncoder tries to
\* finish the stream and the drop of the BufWriter tries to flush, both
\* ignoring the result
DropGzEncoder ==
    /\ pc = "g_failed"
    /\ writer_mode = "gz_single"
    /\ \E f \in gz_try_finish(encoder, Writer) :
          \E r \in flush_buf([buf |-> f.buf, file |-> f.file]) :
             /\ file_bytes' = r.file
             /\ writer_buf' = <<>>
             /\ encoder' = [encoder EXCEPT !.header = TRUE, !.trailer = @ \/ f.ok]
    /\ pc' = "w_err"
    /\ UNCHANGED << trace_events, file_exists, event_index, writer_mode, batch_buffer,
                    sweepVars, corrVars, linkVars, optionVars, workerVars >>

\* ParCompress::finish, first half: the rest of the input becomes the last
\* block. The drop of the encoder after an error does the same.
FinishSubmit ==
    /\ writer_mode = "gz_par"
    /\ \/ pc = "g_finish" /\ pc' = "g_join"
       \/ pc = "g_failed" /\ pc' = "g_drop_join"
    /\ encoder' = par_flush_last(encoder)
    /\ UNCHANGED << trace_events, file_exists, file_bytes, writer_buf, event_index,
                    writer_mode, batch_buffer, sweepVars, corrVars, linkVars,
                    optionVars, workerVars >>

\* a thread of the pool compresses any block that waits
CompressBlock ==
    /\ writer_mode = "gz_par"
    /\ pc \in {"g_loop", "g_flush", "g_last", "g_finish", "g_join", "g_failed",
               "g_drop_join"}
    /\ \E k \in DOMAIN encoder.blocks :
          /\ ~encoder.blocks[k].compressed
          /\ encoder' = [encoder EXCEPT !.blocks[k].compressed = TRUE]
    /\ UNCHANGED << pc, trace_events, file_exists, file_bytes, writer_buf, event_index,
                    writer_mode, batch_buffer, sweepVars, corrVars, linkVars,
                    optionVars, workerVars >>

\* the writer thread of ParCompress: the header first
WriterThreadHeader ==
    /\ writer_mode = "gz_par"
    /\ pc \in {"g_loop", "g_flush", "g_last", "g_finish", "g_join", "g_failed",
               "g_drop_join"}
    /\ ~encoder.header /\ ~encoder.failed
    /\ \E r \in file_write_all(file_bytes, << GzHeader >>) :
          /\ file_bytes' = r.file
          /\ encoder' = [encoder EXCEPT !.header = r.ok, !.failed = ~r.ok]
    /\ UNCHANGED << pc, trace_events, file_exists, writer_buf, event_index,
                    writer_mode, batch_buffer, sweepVars, corrVars, linkVars,
                    optionVars, workerVars >>

\* the writer thread of ParCompress: then the blocks
WriterThreadBlock ==
    /\ writer_mode = "gz_par"
    /\ pc \in {"g_loop", "g_flush", "g_last", "g_finish", "g_join", "g_failed",
               "g_drop_join"}
    /\ encoder.header /\ ~encoder.failed
    /\ \E k \in next_block(encoder) :
          \E r \in file_write_all(file_bytes, deflate(encoder.blocks[k].data)) :
             /\ file_bytes' = r.file
             /\ encoder' = IF r.ok THEN [encoder EXCEPT !.emitted = Append(@, k)]
                           ELSE [encoder EXCEPT !.failed = TRUE]
    /\ UNCHANGED << pc, trace_events, file_exists, writer_buf, event_index,
                    writer_mode, batch_buffer, sweepVars, corrVars, linkVars,
                    optionVars, workerVars >>

\* ParCompress::finish, second half: the writer thread ends the stream with the
\* trailer once every block is in the file, and finish returns its result;
\* after the drop of the encoder the result is not looked at
Join ==
    /\ writer_mode = "gz_par"
    /\ pc \in {"g_join", "g_drop_join"}
    /\ \/ /\ encoder.failed
          /\ pc' = "w_err"
          /\ UNCHANGED << file_bytes, encoder >>
       \/ /\ ~encoder.failed /\ encoder.header
          /\ Len(encoder.emitted) = Len(encoder.blocks)
          /\ \E r \in file_write_all(file_bytes, << GzTrailer(Len(encoder.input)) >>) :
                /\ file_bytes' = r.file
                /\ encoder' = [encoder EXCEPT !.trailer = r.ok, !.failed = ~r.ok]
                /\ pc' = IF r.ok /\ pc = "g_join" THEN "w_ok" ELSE "w_err"
    /\ UNCHANGED << trace_events, file_exists, writer_buf, event_index, writer_mode,
                    batch_buffer, sweepVars, corrVars, linkVars, optionVars,
                    workerVars >>

NextGz ==
    \/ CreateFileGz
    \/ BatchOpening
    \/ BatchEvent
    \/ FlushBatch
    \/ BatchClosing
    \/ FlushLast
    \/ FinishGz
    \/ DropBufWriter
    \/ DropGzEncoder
    \/ FinishSubmit
    \/ CompressBlock
    \/ WriterThreadHeader
    \/ WriterThreadBlock
    \/ Join

NextWriters == NextWriter \/ NextGz

SpecWriters == InitWriters /\ [][NextWriters]_vars

(***************************************************************************)
(* Properties of the overlap engine and of the aggregator (SpecSweep).     *)
(***************************************************************************)
HasRange(e) == e.start_ns.kind = "int" /\ e.end_ns.kind = "int"
LacksBound(e) == e.start_ns = Absent \/ e.end_ns = Absent
StartOf(e) == e.start_ns.val
EndOf(e) == e.end_ns.val

SweepInputs ==
    {source_events[i] : i \in DOMAIN source_events}
        \cup {target_events[j] : j \in DOMAIN target_events}

ValidBounds == \A e \in SweepInputs : HasRange(e) => StartOf(e) <= EndOf(e)

Returned == pc \in {"done", "aggregated"}

\* target t is in the list the returned map holds for source s
Recorded(s, t) ==
    /\ get_event_id(s) \in DOMAIN result
    /\ \E k \in DOMAIN result[get_event_id(s)] :
          result[get_event_id(s)][k].addr = t.addr

\* C1: with start <= end everywhere, find_overlapping_intervals records target
\* t under source s if and only if s.start <= t.start <= s.end, whatever t.end.
C1_OverlapIffStartInside ==
    (Returned /\ ValidBounds) =>
        \A i \in DOMAIN source_events, j \in DOMAIN target_events :
            LET s == source_events[i]
                t == target_events[j]
            IN  Recorded(s, t) <=>
                    /\ HasRange(s) /\ HasRange(t)
                    /\ StartOf(s) <= StartOf(t)
                    /\ StartOf(t) <= EndOf(s)

\* a touching target (t.start = s.end, s.start < s.end) and a simultaneous start
\* are recorded, a target starting before its source is not
C1_Witness ==
    /\ pc = "done" /\ ValidBounds
    /\ \E i \in DOMAIN source_events, j \in DOMAIN target_events :
          /\ HasRange(source_events[i]) /\ HasRange(target_events[j])
          /\ StartOf(source_events[i]) < EndOf(source_events[i])
          /\ StartOf(target_events[j]) = EndOf(source_events[i])
          /\ Recorded(source_events[i], target_events[j])
    /\ \E i \in DOMAIN source_events, j \in DOMAIN target_events :
          /\ HasRange(source_events[i]) /\ HasRange(target_events[j])
          /\ StartOf(target_events[j]) < StartOf(source_events[i])
          /\ ~Recorded(source_events[i], target_events[j])

\* markers of the event at address a that the loop has already processed
StartProcessed(a) ==
    \E k \in 1 .. (pos - 1) :
        /\ mixed_events[k].origin = "Source" /\ mixed_events[k].event_type = 1
        /\ mixed_events[k].event_ref.addr = a
EndProcessed(a) ==
    \E k \in 1 .. (pos - 1) :
        /\ mixed_events[k].origin = "Source" /\ mixed_events[k].event_type = -1
        /\ mixed_events[k].event_ref.addr = a

\* C2: for every source, end < start included, a sweep step appends a target
\* to the source's list only after the source's start marker and before its end
\* marker was processed, and a step on an end marker changes no result list.
C2_AppendOnlyWhileActive ==
    [][(pc = "sweep" /\ pos <= Len(mixed_events)) =>
          /\ \A i \in DOMAIN result_by_index' :
                (i \notin DOMAIN result_by_index
                    \/ result_by_index'[i] # result_by_index[i]) =>
                    /\ StartProcessed(source_events[i].addr)
                    /\ ~EndProcessed(source_events[i].addr)
          /\ mixed_events[pos].event_type = -1 =>
                result_by_index' = result_by_index]_vars

WithoutUnbounded(events) == SelectSeq(events, LAMBDA e : ~LacksBound(e))

\* C3: an event lacking start_ns or end_ns has no time range, contributes no
\* marker to the sweep as source or as target, appears under no key and in no
\* list of the overlap map, and contributes no bound to aggregate_kernel_times.
C3_NoRangeNoContribution ==
    \A e \in SweepInputs :
        LacksBound(e) =>
            /\ get_time_range(e) = None
            /\ \A k \in DOMAIN mixed_events : mixed_events[k].event_ref.addr # e.addr
            /\ e.addr \notin DOMAIN result
            /\ \A id \in DOMAIN result : \A k \in DOMAIN result[id] :
                  result[id][k].addr # e.addr
            /\ pc = "aggregated" =>
                  aggregate = aggregate_kernel_times(WithoutUnbounded(target_events))

\* a source lacking only end_ns and a target lacking only start_ns, beside a
\* target with a time range: the map stays empty, the aggregate is that target's
C3_Witness ==
    /\ pc = "aggregated"
    /\ \E i \in DOMAIN source_events :
          source_events[i].start_ns.kind = "int" /\ source_events[i].end_ns = Absent
    /\ \E j \in DOMAIN target_events :
          target_events[j].start_ns = Absent /\ target_events[j].end_ns.kind = "int"
    /\ \E j \in DOMAIN target_events :
          /\ HasRange(target_events[j])
          /\ aggregate = Some(<< StartOf(target_events[j]), EndOf(target_events[j]) >>)
    /\ DOMAIN result = {}

SetMin(S) == CHOOSE x \in S : \A y \in S : x <= y
SetMax(S) == CHOOSE x \in S : \A y \in S : x >= y

\* C5: aggregate_kernel_times returns (min of starts, max of ends) over exactly
\* the kernels with a valid time range, and absent when there is none.
C5_AggregateMinMax ==
    pc = "aggregated" =>
        LET valid == {j \in DOMAIN target_events : HasRange(target_events[j])}
        IN  IF valid = {} THEN aggregate = None
            ELSE aggregate =
                    Some(<< SetMin({StartOf(target_events[j]) : j \in valid}),
                            SetMax({EndOf(target_events[j]) : j \in valid}) >>)

\* the two bounds come from different kernels, the larger end from the first
C5_Witness ==
    /\ pc = "aggregated"
    /\ Len(target_events) = 2
    /\ HasRange(target_events[1]) /\ HasRange(target_events[2])
    /\ StartOf(target_events[2]) < StartOf(target_events[1])
    /\ EndOf(target_events[2]) < EndOf(target_events[1])
    /\ aggregate = Some(<< StartOf(target_events[2]), EndOf(target_events[1]) >>)

(***************************************************************************)
(* Properties of the correlation index (SpecCorr).                         *)
(***************************************************************************)
CorrBuilt == pc \in {"corr_built", "found"}

BucketCount(c, a) ==
    IF c \in DOMAIN correlation_map
    THEN Cardinality({k \in DOMAIN correlation_map[c] : correlation_map[c][k].addr = a})
    ELSE 0
InputCount(a) ==
    Cardinality({i \in DOMAIN kernel_events : kernel_events[i].addr = a})

ExtractedIds ==
    {get_correlation_id(kernel_events[i]).v :
        i \in {j \in DOMAIN kernel_events : get_correlation_id(kernel_events[j]).some}}

\* C4: build_correlation_map groups by identifier equality: a kernel is in the
\* bucket of c iff its (extracted) identifier is c, once per occurrence in the
\* input; no bucket is empty; a kernel without identifier is in no bucket.
C4_GroupedByIdentifier ==
    CorrBuilt =>
        /\ DOMAIN correlation_map = ExtractedIds
        /\ \A c \in DOMAIN correlation_map :
              /\ correlation_map[c] # <<>>
              /\ \A k \in DOMAIN correlation_map[c] :
                    \E i \in DOMAIN kernel_events :
                        kernel_events[i] = correlation_map[c][k]
        /\ \A i \in DOMAIN kernel_events :
              LET kernel == kernel_events[i]
                  id == get_correlation_id(kernel)
              IN  \A c \in DOMAIN correlation_map :
                      BucketCount(c, kernel.addr) =
                          IF id.some /\ id.v = c THEN InputCount(kernel.addr) ELSE 0

\* two kernels share one bucket, a third kernel has no identifier
C4_Witness ==
    /\ pc = "corr_built"
    /\ Len(kernel_events) = 3
    /\ \E c \in DOMAIN correlation_map :
          /\ Len(correlation_map[c]) = 2
          /\ correlation_map[c][1].addr # correlation_map[c][2].addr
    /\ \E i \in DOMAIN kernel_events : kernel_events[i].correlationId = Absent

(***************************************************************************)
(* Properties of the linker (SpecLink).                                    *)
(***************************************************************************)
Linked == pc = "linked"

SameDevice(x, y) == device_of(x).some /\ device_of(x) = device_of(y)

StartsInside(a, p) ==
    /\ HasRange(a) /\ HasRange(p)
    /\ StartOf(a) <= StartOf(p) /\ StartOf(p) <= EndOf(a)

Launches(p, k) ==
    get_correlation_id(p).some /\ get_correlation_id(p) = get_correlation_id(k)

\* the API calls of the annotation's device whose start falls inside it
OverlappingApis(a) ==
    {i \in DOMAIN cuda_api_events :
        SameDevice(a, cuda_api_events[i]) /\ StartsInside(a, cuda_api_events[i])}

\* the kernels of the annotation's device launched by one of those API calls
ReachableKernels(a) ==
    {j \in DOMAIN kernel_events :
        /\ SameDevice(a, kernel_events[j])
        /\ \E i \in OverlappingApis(a) : Launches(cuda_api_events[i], kernel_events[j])}

TimedKernels(K) == {j \in K : HasRange(kernel_events[j])}

DerivedOf(a) == {n \in DOMAIN nvtx_kernel_events : nvtx_kernel_events[n].name = a.name}

InNanos(m) == m.us * 1000 + m.frac_ns
Canonical(m) == 0 <= m.frac_ns /\ m.frac_ns < 1000

\* C6: no link across devices: the span of every derived event is bounded by
\* kernels of its annotation's device reached through API calls of that device,
\* and an annotation whose device has no API call or no kernel has no derived
\* event and no mapping entry.
C6_NoCrossDeviceLink ==
    Linked =>
        /\ \A n \in DOMAIN nvtx_kernel_events :
              \E i \in DOMAIN nvtx_events :
                  LET a == nvtx_events[i]
                      K == TimedKernels(ReachableKernels(a))
                      d == nvtx_kernel_events[n]
                  IN  /\ d.name = a.name
                      /\ \E j \in K : StartOf(kernel_events[j]) = InNanos(d.ts)
                      /\ \E j \in K :
                            EndOf(kernel_events[j]) = InNanos(d.ts) + InNanos(d.dur)
        /\ \A i \in DOMAIN nvtx_events :
              LET a == nvtx_events[i]
              IN  (\/ \A p \in DOMAIN cuda_api_events : ~SameDevice(a, cuda_api_events[p])
                   \/ \A k \in DOMAIN kernel_events : ~SameDevice(a, kernel_events[k])) =>
                      /\ DerivedOf(a) = {}
                      /\ get_event_id(a) \notin DOMAIN mapped_identifiers

\* an annotation of one device is fully overlapped by an API call and a kernel
\* of another device and stays unlinked, while an annotation of that other
\* device is linked
C6_Witness ==
    /\ Linked
    /\ \E i \in DOMAIN nvtx_events, p \in DOMAIN cuda_api_events,
          k \in DOMAIN kernel_events :
          /\ ~SameDevice(nvtx_events[i], cuda_api_events[p])
          /\ SameDevice(cuda_api_events[p], kernel_events[k])
          /\ StartsInside(nvtx_events[i], cuda_api_events[p])
          /\ Launches(cuda_api_events[p], kernel_events[k])
          /\ HasRange(kernel_events[k])
          /\ DerivedOf(nvtx_events[i]) = {}
    /\ Len(nvtx_kernel_events) = 1

\* C7: an annotation with a reachable kernel that has a time range gets exactly
\* one derived event, named as the annotation, of category nvtx-kernel, with
\* ts = (min start)/1000 and dur = (max end - min start)/1000 over the
\* reachable kernels of all its overlapping API calls.
C7_DerivedSpan ==
    Linked =>
        \A i \in DOMAIN nvtx_events :
            LET a == nvtx_events[i]
                K == TimedKernels(ReachableKernels(a))
                lo == SetMin({StartOf(kernel_events[j]) : j \in K})
                hi == SetMax({EndOf(kernel_events[j]) : j \in K})
            IN  K # {} =>
                    /\ Cardinality(DerivedOf(a)) = 1
                    /\ \A n \in DerivedOf(a) :
                          LET d == nvtx_kernel_events[n]
                          IN  /\ d.cat = "nvtx-kernel"
                              /\ Canonical(d.ts) /\ Canonical(d.dur)
                              /\ InNanos(d.ts) = lo
                              /\ InNanos(d.dur) = hi - lo

\* two overlapping API calls with different identifiers: the earliest start
\* comes from the kernel of the second call, the latest end from the first's
C7_Witness ==
    /\ Linked
    /\ \E i \in DOMAIN nvtx_events :
          /\ Cardinality(OverlappingApis(nvtx_events[i])) = 2
          /\ Len(kernel_events) = 2
          /\ Launches(cuda_api_events[1], kernel_events[1])
          /\ Launches(cuda_api_events[2], kernel_events[2])
          /\ ~Launches(cuda_api_events[1], kernel_events[2])
          /\ TimedKernels(ReachableKernels(nvtx_events[i])) = {1, 2}
          /\ StartOf(kernel_events[2]) < StartOf(kernel_events[1])
          /\ EndOf(kernel_events[2]) < EndOf(kernel_events[1])
          /\ \E n \in DerivedOf(nvtx_events[i]) :
                /\ InNanos(nvtx_kernel_events[n].ts) = StartOf(kernel_events[2])
                /\ InNanos(nvtx_kernel_events[n].dur) =
                      EndOf(kernel_events[1]) - StartOf(kernel_events[2])

\* a device the linker processes: it carries an annotation, an API call, a kernel
IsCommonDevice(e) ==
    /\ \E i \in DOMAIN nvtx_events : SameDevice(e, nvtx_events[i])
    /\ \E p \in DOMAIN cuda_api_events : SameDevice(e, cuda_api_events[p])
    /\ \E k \in DOMAIN kernel_events : SameDevice(e, kernel_events[k])

\* the API-call-to-kernel links: same device, same correlation identifier
ApiKernelLinks ==
    {pk \in (DOMAIN cuda_api_events) \X (DOMAIN kernel_events) :
        /\ SameDevice(cuda_api_events[pk[1]], kernel_events[pk[2]])
        /\ Launches(cuda_api_events[pk[1]], kernel_events[pk[2]])}

FlowIds == {flow_events[f].id : f \in DOMAIN flow_events}
FlowsWith(id, ph) ==
    {f \in DOMAIN flow_events : flow_events[f].id = id /\ flow_events[f].ph = ph}

\* every edge is a cuda_flow start or finish, a finish is a binding point, and
\* every identifier is carried by exactly one start and exactly one finish
FlowEdgesPaired ==
    /\ \A f \in DOMAIN flow_events :
          /\ flow_events[f].cat = "cuda_flow"
          /\ flow_events[f].ph \in {"s", "f"}
          /\ flow_events[f].ph = "f" => flow_events[f].bp.some
    /\ \A id \in FlowIds :
          Cardinality(FlowsWith(id, "s")) = 1 /\ Cardinality(FlowsWith(id, "f")) = 1

NoAnnotationOverlap ==
    \A i \in DOMAIN nvtx_events : OverlappingApis(nvtx_events[i]) = {}

C11_OneEntryPerDerivedEvent ==
    Linked =>
        /\ Cardinality(DOMAIN mapped_identifiers) = Len(nvtx_kernel_events)
        /\ \A k \in DOMAIN mapped_identifiers :
              \E i \in DOMAIN nvtx_events :
                  /\ nvtx_events[i].addr = k
                  /\ \E n \in DerivedOf(nvtx_events[i]) :
                        nvtx_kernel_events[n] = mapped_identifiers[k]
        /\ \A i \in DOMAIN nvtx_events :
              DerivedOf(nvtx_events[i]) = {} =>
                  nvtx_events[i].addr \notin DOMAIN mapped_identifiers

\* two annotations with equal field values are both linked: two derived events
\* and two keys
C11_Witness ==
    /\ Linked
    /\ Len(nvtx_events) = 2
    /\ nvtx_events[1].start_ns = nvtx_events[2].start_ns
    /\ nvtx_events[1].end_ns = nvtx_events[2].end_ns
    /\ nvtx_events[1].deviceId = nvtx_events[2].deviceId
    /\ Len(nvtx_kernel_events) = 2
    /\ DOMAIN mapped_identifiers = {nvtx_events[1].addr, nvtx_events[2].addr}

(***************************************************************************)
(* Properties of the linker with options (SpecOptions).                    *)
(***************************************************************************)
DeviceOf(e) == device_of(e).v

\* the annotations that get a derived event, and the order the partitions give
LinkedAnnotations ==
    {i \in DOMAIN nvtx_events : TimedKernels(ReachableKernels(nvtx_events[i])) # {}}
AnnotationBefore(i, j) ==
    \/ DeviceOf(nvtx_events[i]) < DeviceOf(nvtx_events[j])
    \/ DeviceOf(nvtx_events[i]) = DeviceOf(nvtx_events[j]) /\ i < j

\* the API-call-to-kernel links of the processed devices, and their order
ProcessedLinks == {pk \in ApiKernelLinks : IsCommonDevice(cuda_api_events[pk[1]])}
LinkBefore(a, b) ==
    LET da == DeviceOf(cuda_api_events[a[1]])
        db == DeviceOf(cuda_api_events[b[1]])
    IN  \/ da < db
        \/ da = db /\ a[1] < b[1]
        \/ da = db /\ a[1] = b[1] /\ a[2] < b[2]

DistinctPatterns ==
    \A i, j \in DOMAIN color_rules :
        color_rules[i].pattern = color_rules[j].pattern => i = j

\* C13: the colour of a derived event is the colour of the first rule, in the
\* configured rule order, whose pattern matches the event name, and is unset
\* when no rule matches (so it is the same on every run).
C13_FirstConfiguredRuleWins ==
    (Linked /\ DistinctPatterns) =>
        \A n \in DOMAIN nvtx_kernel_events :
            nvtx_kernel_events[n].cname =
                color_for(nvtx_kernel_events[n].name, color_rules)

(***************************************************************************)
(* Properties of the event identity (SpecSweep).                           *)
(***************************************************************************)
SameFields(x, y) ==
    /\ x.name = y.name /\ x.ts = y.ts
    /\ x.start_ns = y.start_ns /\ x.end_ns = y.end_ns
    /\ x.deviceId = y.deviceId /\ x.correlationId = y.correlationId

\* C14: get_event_id gives one identity per event instance: two references get
\* the same identity exactly when they point to the same instance, whatever the
\* field values, and the identity a later call computes (the keys of the
\* returned map) is the one the source references have.
C14_IdentityPerInstance ==
    /\ \A x, y \in SweepInputs :
          (get_event_id(x) = get_event_id(y)) <=> (x.addr = y.addr)
    /\ Returned =>
          \A id \in DOMAIN result :
              \E i \in DOMAIN source_events :
                  /\ source_events[i].addr = id
                  /\ get_event_id(source_events[i]) = id

\* the first target is the source itself, the second target is another
\* instance with the same field values
C14_Witness ==
    /\ pc = "done"
    /\ Len(source_events) = 1 /\ Len(target_events) = 2
    /\ target_events[1].addr = source_events[1].addr
    /\ target_events[2].addr # source_events[1].addr
    /\ SameFields(target_events[2], source_events[1])
    /\ get_event_id(target_events[1]) = get_event_id(source_events[1])
    /\ get_event_id(target_events[2]) # get_event_id(source_events[1])
    /\ DOMAIN result = {get_event_id(source_events[1])}

(***************************************************************************)
(* Properties of the event identity across a move (SpecMove).  The name    *)
(* kind_index of an annotation is the index it was ingested with.          *)
(***************************************************************************)
Annotations == {nvtx_events[i] : i \in DOMAIN nvtx_events}

\* C15: identity does not come from the memory address: across every step an
\* event keeps its identity, also when it is stored at a different address,
\* and no other event takes an identity that an event had before.
C15_IdentityNotFromAddress ==
    [][\A x \in Annotations : \A y \in Annotations' :
          (x.name = y.name) <=> (get_event_id(x) = get_event_id(y))]_vars

(***************************************************************************)
(* Properties of the overlap engine on reordered lists (SpecReorder).      *)
(***************************************************************************)
\* the (source identity, target identity) pairs of an overlap map
Pairs(m) ==
    UNION {{<< id, get_event_id(m[id][k]) >> : k \in DOMAIN m[id]} : id \in DOMAIN m}

\* the orders the elements of a list can be put in
Reorderings(s) == {[i \in DOMAIN s |-> s[p[i]]] : p \in Permutations(DOMAIN s)}

\* C16: find_overlapping_intervals called on any reordering of the source list
\* and any reordering of the target list returns the same set of
\* (source, target) pairs as the call on the lists as given.
C16_PairsUnderReordering ==
    pc = "done" =>
        \A ps \in Reorderings(source_events), pt \in Reorderings(target_events) :
            Pairs(find_overlapping_intervals(ps, pt)) = Pairs(result)

\* two overlapping sources that end at different times and two targets that
\* start together: the order of a list changes a result list, the later
\* source's removal is by reference, and the pairs stay the same
C16_Witness ==
    /\ pc = "done"
    /\ Len(source_events) = 2 /\ Len(target_events) = 2
    /\ HasRange(source_events[1]) /\ HasRange(source_events[2])
    /\ StartOf(source_events[1]) = StartOf(source_events[2])
    /\ EndOf(source_events[2]) < StartOf(target_events[1])
    /\ HasRange(target_events[1]) /\ HasRange(target_events[2])
    /\ StartOf(target_events[1]) = StartOf(target_events[2])
    /\ Pairs(result) = {<< get_event_id(source_events[1]), get_event_id(t) >> :
                            t \in {target_events[1], target_events[2]}}
    /\ find_overlapping_intervals(source_events, Reverse(target_events)) # result

(***************************************************************************)
(* Properties of the returned overlap map (SpecSweep).                     *)
(***************************************************************************)
\* the overlap of two intervals: the target starts inside the source
Overlapping(s, t) ==
    /\ HasRange(s) /\ HasRange(t)
    /\ StartOf(s) <= StartOf(t)
    /\ StartOf(t) <= EndOf(s)

OverlappingPairs ==
    {<< i, j >> \in (DOMAIN source_events) \X (DOMAIN target_events) :
        Overlapping(source_events[i], target_events[j])}

\* C17: every key of the map returned by find_overlapping_intervals is the
\* identity of a source that at least one target overlaps, no key maps to an
\* empty list, and the map is empty when the source list is empty, the target
\* list is empty or no pair overlaps.
C17_KeysOnlyForOverlappedSources ==
    Returned =>
        /\ \A id \in DOMAIN result :
              /\ result[id] # <<>>
              /\ \E p \in OverlappingPairs : get_event_id(source_events[p[1]]) = id
        /\ (source_events = <<>> \/ target_events = <<>> \/ OverlappingPairs = {})
              => result = EmptyMap

(***************************************************************************)
(* Properties of the engine on any input (SpecEngine).                     *)
(***************************************************************************)
\* the lookups of the sweep: source_index_map[address] for every active
\* source, source_events[idx] for every key of result_by_index, and the
\* marker the loop reads next
LookupsSucceed ==
    /\ \A k \in DOMAIN active_source_intervals :
          active_source_intervals[k].addr \in DOMAIN source_index_map(source_events)
    /\ \A idx \in DOMAIN result_by_index : idx \in DOMAIN source_events
    /\ pos \in 1 .. (Len(mixed_events) + 1)

\* a call past its first lines can take its next step: the loop handles the
\* marker it reads or is over, and the other functions run on what they get
CallReturns ==
    /\ pc = "sweep" =>
          ENABLED (SourceStart \/ TargetStart \/ SourceEnd \/ TargetEnd \/ Convert)
    /\ pc = "done" => ENABLED Aggregate
    /\ pc = "corr_build" => ENABLED BuildCorrelationMap
    /\ pc = "corr_built" => ENABLED FindKernelsForAnnotation

RangedIds(events) ==
    {get_event_id(events[i]) : i \in {j \in DOMAIN events : HasRange(events[j])}}

\* what is returned is made of complete input events only
OnlyFromCompleteData ==
    /\ Pairs(result) \subseteq RangedIds(source_events) \X RangedIds(target_events)
    /\ (pc = "aggregated" /\ RangedIds(target_events) = {}) => aggregate = None
    /\ \A c \in DOMAIN correlation_map : \A k \in DOMAIN correlation_map[c] :
          \E i \in DOMAIN kernel_events :
              /\ kernel_events[i] = correlation_map[c][k]
              /\ kernel_events[i].correlationId.kind = "int"
    /\ \A k \in DOMAIN found_kernels :
          \E c \in DOMAIN correlation_map, i \in DOMAIN cuda_api_events :
              /\ cuda_api_events[i].correlationId.kind = "int"
              /\ \E n \in DOMAIN correlation_map[c] : correlation_map[c][n] = found_kernels[k]

\* C18: on every input (time fields or correlation identifiers missing or not
\* integers, end < start, a reference given twice, an event in both lists,
\* empty lists) every lookup of the sweep succeeds, every call of the four
\* functions runs to its return, and what is returned holds complete input
\* events only.
C18_NoFault ==
    /\ LookupsSucceed
    /\ CallReturns
    /\ OnlyFromCompleteData

\* a source with end < start given twice and a target whose start is not an
\* integer: the sweep returned, with one key, the duplicated source
C18_Witness ==
    /\ pc = "done"
    /\ Len(source_events) = 2 /\ source_events[1] = source_events[2]
    /\ EndOf(source_events[1]) < StartOf(source_events[1])
    /\ \E j \in DOMAIN target_events : target_events[j].start_ns = NonInteger
    /\ DOMAIN result = {get_event_id(source_events[1])}

(***************************************************************************)
(* Properties of the partitions processed by workers (SpecWorkers).        *)
(***************************************************************************)
\* what the sequential linker returns on the same lists
Sequential ==
    LinkAllDevices(LocalState, devices, nvtx_events, cuda_api_events, kernel_events,
                   nvtx_color_scheme)

OfDevice(events, d) == SelectSeq(events, LAMBDA e : e.deviceId = IntAttr(d))

\* the output of the partition of device d computed from the events of that
\* device alone
Alone(d) ==
    LinkPartition(LocalState, d, OfDevice(nvtx_events, d), OfDevice(cuda_api_events, d),
                  OfDevice(kernel_events, d), nvtx_color_scheme)

FlowIdsOf(flows) == {flows[k].id : k \in DOMAIN flows}

WithoutIds(flows) == [k \in DOMAIN flows |-> [flows[k] EXCEPT !.id = 0]]

FinishedDevices == {d \in DOMAIN partition_out : partition_out[d].finished}

\* every identifier is carried by one flow-start and one flow-finish
PairedIds(flows) ==
    \A id \in FlowIdsOf(flows) :
        /\ Cardinality({k \in DOMAIN flows : flows[k].id = id /\ flows[k].ph = "s"}) = 1
        /\ Cardinality({k \in DOMAIN flows : flows[k].id = id /\ flows[k].ph = "f"}) = 1

RECURSIVE Joined(_)
Joined(events) ==
    IF events = <<>> THEN <<>>
    ELSE IF Len(events) = 1 THEN to_vec(events[1]).v
    ELSE Joined(SubSeq(events, 1, Len(events) - 1)) \o << "," >>
             \o to_vec(events[Len(events)]).v

\* C20: after a successful write the file holds exactly the opening
\* {"traceEvents":[ , the serializations of the events in input order
\* separated by single commas, and the closing ]} ; nothing stays buffered.
C20_WriteExactBytes ==
    pc = "w_ok" =>
        /\ file_exists
        /\ file_bytes = << "{", "\"traceEvents\":", "[" >> \o Joined(trace_events)
                            \o << "]", "}" >>
        /\ writer_buf = <<>>

\* two different events, the second longer than the buffer: it went to the
\* file directly, after the flush of what was buffered before it
C20_Witness ==
    /\ pc = "w_ok"
    /\ Len(trace_events) = 2
    /\ trace_events[1] # trace_events[2]
    /\ Len(to_vec(trace_events[2]).v) >= BufCapacity
    /\ Len(file_bytes) = 5 + Len(to_vec(trace_events[1]).v) + 1
                             + Len(to_vec(trace_events[2]).v)

(***************************************************************************)
(* Order inside the buckets of the correlation index (SpecCorr).           *)
(***************************************************************************)
\* the kernels of the input list that carry identifier c, in input order
KernelsWithId(c) ==
    SelectSeq(kernel_events, LAMBDA e : get_correlation_id(e) = Some(c))

\* C26: every bucket of the map returned by build_correlation_map holds its
\* kernels in the order in which they appear in the input list.
C26_BucketOrderIsInputOrder ==
    CorrBuilt =>
        \A c \in DOMAIN correlation_map : correlation_map[c] = KernelsWithId(c)

\* a bucket of two different kernels that are not neighbours in the input
C26_Witness ==
    /\ CorrBuilt
    /\ Len(kernel_events) = 3
    /\ \E c \in DOMAIN correlation_map :
          /\ correlation_map[c] = << kernel_events[1], kernel_events[3] >>
          /\ kernel_events[1] # kernel_events[3]
          /\ get_correlation_id(kernel_events[2]).some

(***************************************************************************)
(* Properties of find_kernels_for_annotation (SpecCorr).                   *)
(***************************************************************************)
\* the bucket an API call reaches in map cm: none without an identifier or
\* with an identifier that is no key of the map
BucketOf(api_event, cm) ==
    IF api_event.correlationId.kind = "int"
          /\ api_event.correlationId.val.lo \in DOMAIN cm
    THEN cm[api_event.correlationId.val.lo]
    ELSE <<>>

\* the buckets of the API calls i .. Len(apis) one after another
RECURSIVE BucketsFrom(_, _, _)
BucketsFrom(i, apis, cm) ==
    IF i > Len(apis) THEN <<>>
    ELSE BucketOf(apis[i], cm) \o BucketsFrom(i + 1, apis, cm)

Elements(s) == {s[k] : k \in DOMAIN s}

\* C27: find_kernels_for_annotation returns a kernel if and only if the bucket
\* of the identifier of some API call holds it; a call without identifier,
\* with an identifier that is no key, or with an empty bucket contributes
\* nothing; the kernels come in API-call order, then bucket order.
C27_FoundIffReachable ==
    pc = "found" =>
        /\ \A k \in Elements(kernel_events) :
              k \in Elements(found_kernels) <=>
                  \E i \in DOMAIN cuda_api_events :
                      LET id == get_correlation_id(cuda_api_events[i])
                      IN  /\ id.some
                          /\ id.v \in DOMAIN correlation_map
                          /\ k \in Elements(correlation_map[id.v])
        /\ Elements(found_kernels) \subseteq Elements(kernel_events)
        /\ found_kernels = BucketsFrom(1, cuda_api_events, correlation_map)
        /\ \A c \in DOMAIN correlation_map :
              LET emptied == [correlation_map EXCEPT ![c] = <<>>]
              IN  find_kernels_for_annotation(cuda_api_events, emptied)
                      = BucketsFrom(1, cuda_api_events, emptied)

\* the first call reaches the bucket of the larger identifier, the second
\* call the other bucket: the kernels come in call order
C27_Witness ==
    /\ pc = "found"
    /\ Len(cuda_api_events) = 2
    /\ get_correlation_id(cuda_api_events[1]) = Some(2)
    /\ get_correlation_id(cuda_api_events[2]) = Some(1)
    /\ DOMAIN correlation_map = {1, 2}
    /\ Len(correlation_map[2]) = 2
    /\ found_kernels = correlation_map[2] \o correlation_map[1]

Occurrences(s, x) == Cardinality({k \in DOMAIN s : s[k] = x})

NoReferenceTwice(s) == \A i \in DOMAIN s : \A j \in DOMAIN s : s[i] = s[j] => i = j

\* C28: the kernels found for the API calls are a union: when the kernel
\* list holds no reference twice, every kernel reached appears exactly once
\* in the result, also when several API calls carry the same identifier.
C28_EachKernelOnce ==
    (pc = "found" /\ NoReferenceTwice(kernel_events)) =>
        \A k \in Elements(found_kernels) : Occurrences(found_kernels, k) = 1

(***************************************************************************)
(* The extracted correlation identifier (SpecCorr).                        *)
(***************************************************************************)
CorrInputs == Elements(kernel_events) \cup Elements(cuda_api_events)

StoresInteger(e) == e.correlationId.kind = "int"

\* the stored 64-bit value equals the 32-bit value n
StoredEquals(e, n) == e.correlationId.val.hi = 0 /\ e.correlationId.val.lo = n

\* C29: get_correlation_id returns every stored integer unchanged, so two
\* events whose stored identifiers differ get different extracted identifiers
\* and never share a bucket of the correlation map, also for stored values
\* outside the signed 32-bit range.
C29_IdentifierUnchanged ==
    /\ \A e \in CorrInputs :
          StoresInteger(e) =>
              /\ get_correlation_id(e).some
              /\ StoredEquals(e, get_correlation_id(e).v)
    /\ \A x \in CorrInputs : \A y \in CorrInputs :
          (StoresInteger(x) /\ StoresInteger(y) /\ x.correlationId # y.correlationId) =>
              get_correlation_id(x) # get_correlation_id(y)
    /\ CorrBuilt =>
          \A c \in DOMAIN correlation_map :
              \A x \in Elements(correlation_map[c]) : \A y \in Elements(correlation_map[c]) :
                  x.correlationId = y.correlationId

(***************************************************************************)
(* Order inside the lists of the overlap map (SpecEngine).                 *)
(***************************************************************************)
\* the first position of the target list that holds reference t
TargetIndex(t) ==
    CHOOSE j \in DOMAIN target_events :
        /\ target_events[j].addr = t.addr
        /\ \A i \in DOMAIN target_events : target_events[i].addr = t.addr => j <= i

NoAddressTwice(s) == \A i \in DOMAIN s : \A j \in DOMAIN s : s[i].addr = s[j].addr => i = j

\* C30: in every list of the overlap map the targets are in the order in
\* which the sweep met their start markers: start timestamps never decrease,
\* and targets with equal starts are in the order of the target list; when
\* neither input list holds a reference twice no list holds a target twice.
C30_ListsInSweepOrder ==
    pc = "done" =>
        \A id \in DOMAIN result :
            LET list == result[id]
            IN  /\ \A a \in DOMAIN list : \A b \in DOMAIN list :
                      a < b =>
                          /\ StartOf(list[a]) <= StartOf(list[b])
                          /\ StartOf(list[a]) = StartOf(list[b]) =>
                                TargetIndex(list[a]) <= TargetIndex(list[b])
                /\ (NoAddressTwice(source_events) /\ NoAddressTwice(target_events)) =>
                      \A a \in DOMAIN list : \A b \in DOMAIN list :
                          list[a].addr = list[b].addr => a = b

\* two targets that start together but end at different times, both in the
\* list of a source in the order of the target list
C30_Witness ==
    /\ pc = "done"
    /\ Len(target_events) = 2
    /\ HasRange(target_events[1]) /\ HasRange(target_events[2])
    /\ StartOf(target_events[1]) = StartOf(target_events[2])
    /\ EndOf(target_events[1]) > EndOf(target_events[2])
    /\ \E id \in DOMAIN result : result[id] = target_events

\* ---------------------------------------------------------------------------
\* Properties of the gzip writers (SpecWriters)
\* ---------------------------------------------------------------------------
GzMode == writer_mode \in {"gz_single", "gz_par"}

AllSerializable == \A k \in DOMAIN trace_events : trace_events[k].serializable

\* the document of the events, and its part up to (not including) event i
Document == << "{", "\"traceEvents\":", "[" >> \o Joined(trace_events) \o << "]", "}" >>

DocumentBefore(i) ==
    << "{", "\"traceEvents\":", "[" >> \o Joined(SubSeq(trace_events, 1, i - 1))

\* the bytes the writer produced so far: those handed to the encoder followed
\* by those in the batch buffer
Produced == encoder.input \o batch_buffer

BatchBelowThresholdAtEventStep ==
    (GzMode /\ pc = "g_loop") => Len(batch_buffer) < BatchThreshold

FlushKeepsBytes ==
    /\ (GzMode /\ pc \in {"g_loop", "g_flush"}) => Produced = DocumentBefore(event_index)
    /\ (GzMode /\ pc = "g_last") => Produced = Document

\* C25 as stated: in both gzip writers the batch buffer holds fewer bytes than
\* the threshold at the start of every event step, a flush loses, duplicates
\* and reorders no byte, and the batch buffer never holds the whole document
\* once the document exceeds the threshold.
C25_BatchNeverWholeDocument ==
    /\ BatchBelowThresholdAtEventStep
    /\ FlushKeepsBytes
    /\ (GzMode /\ AllSerializable /\ batch_buffer = Document)
           => Len(Document) <= BatchThreshold

\* C25, amended: in both gzip writers the batch buffer holds fewer bytes than
\* the threshold at the start of every event step, a flush loses, duplicates
\* and reorders no byte, and the batch buffer holds the whole document only if
\* the document without its closing ]} is shorter than the threshold.
C25_BatchBounded ==
    /\ BatchBelowThresholdAtEventStep
    /\ FlushKeepsBytes
    /\ (GzMode /\ AllSerializable /\ batch_buffer = Document)
           => Len(Document) < BatchThreshold + 2

\* a full batch buffer was handed to the encoder and cleared, and the loop is
\* at the start of the step of a further event
C25_Witness ==
    /\ GzMode /\ pc = "g_loop"
    /\ event_index <= Len(trace_events)
    /\ Len(encoder.input) >= BatchThreshold
    /\ batch_buffer = <<>>

\* the step in which the writer calls finish on the encoder
CallsFinish == GzMode /\ pc = "g_finish" /\ pc' # pc

\* the step in which the writer returns Ok(())
ReturnsOk == pc # "w_ok" /\ pc' = "w_ok"

\* C23: both gzip writers call finish on the encoder only after every byte of
\* the document, the rest of the batch buffer and the closing ]} included, was
\* handed to the encoder; a gzip writer returns success only after finish
\* succeeded, having written the trailer, and write only after its flush
\* succeeded, having emptied the buffer.
C23_FinishAfterAllBytes ==
    [][/\ CallsFinish => (AllSerializable /\ encoder.input = Document)
       /\ (ReturnsOk /\ GzMode) =>
              /\ pc \in {"g_finished", "g_join"}
              /\ encoder'.trailer
              /\ encoder'.input = Document
       /\ (ReturnsOk /\ ~GzMode) =>
              /\ pc = "w_flush"
              /\ writer_buf' = <<>>
              /\ file_bytes' = file_bytes \o writer_buf]_vars

\* write_gz returned success for two events: the batch buffer was handed over
\* when the second event filled it and again with the closing, then the
\* encoder was finished
C23_Witness ==
    /\ writer_mode = "gz_par" /\ pc = "w_ok"
    /\ Len(trace_events) = 2
    /\ encoder.trailer
    /\ batch_buffer = << "]", "}" >>

\* the input bytes behind the compressed bytes of the file, in file order
Inflated(file) ==
    LET zs == SelectSeq(file, LAMBDA t : t[1] = "z")
    IN  [k \in DOMAIN zs |-> zs[k][2]]

IsPrefix(s, t) == Len(s) <= Len(t) /\ s = SubSeq(t, 1, Len(s))

ReadBack ==
    IF GzMode THEN gunzip(file_bytes)
    ELSE IF file_exists THEN Ok(file_bytes) ELSE Err

\* bytes that read as a complete document: the opening first, the closing last
IsComplete(bytes) ==
    /\ Len(bytes) >= 5
    /\ SubSeq(bytes, 1, 3) = << "{", "\"traceEvents\":", "[" >>
    /\ SubSeq(bytes, Len(bytes) - 1, Len(bytes)) = << "]", "}" >>

ReadsAsComplete == ReadBack.ok /\ IsComplete(ReadBack.v)

\* C24: a call of write, write_gz_single_threaded or write_gz in which a step
\* failed returns an error and leaves no file that reads as a complete
\* document: a call that returned an error left no such file, and a call that
\* returned success left one (no step of it having failed).
C24_FailureLeavesNoCompleteDocument ==
    /\ pc = "w_err" => ~ReadsAsComplete
    /\ pc = "w_ok" => ReadsAsComplete

\* C21: for every event sequence, a successful write leaves the document in
\* the file and a successful write_gz_single_threaded or write_gz leaves a
\* file that decompresses to that same document, however often the batch
\* buffer was flushed on the way.
C21_SameBytesDecompressed ==
    pc = "w_ok" => (ReadBack.ok /\ ReadBack.v = Document)

====
